---- MODULE Spec2Model ----
(***************************************************************************)
(* pinia-extract: external getters and actions for Pinia stores.           *)
(*                                                                         *)
(* The model covers the immutable state proxy (constants.ts), the plugin   *)
(* (plugin.ts: defineGetter, defineAction, $onAction, $dispose), the       *)
(* subscription helpers (pinia-subscriptions.ts) and the composition       *)
(* functions useGetter / useGetterFactory (getters-utils.ts).              *)
(***************************************************************************)
EXTENDS Integers, Sequences, FiniteSets, TLC

VARIABLES
    state,                \* store id -> the store's $state (a tree)
    getterRegistry,       \* getter -> the pull function useGetter stored for it
    factoryRegistry,      \* getter factory -> (key of the arguments -> pull function)
    nextPull,             \* the number of pull functions created so far, plus one
    bindings,             \* the computed refs returned by useGetter, in creation order
    refs,                 \* Vue ref id -> the value the ref holds
    actionSubscriptions,  \* plugin.ts: the module's list of $onAction callbacks
    nativeSubs,           \* store id -> Pinia's own list of $onAction callbacks
    isDisposed,           \* store id -> the plugin's isDisposed flag
    pending,              \* invocations of async actions whose promise is pending
    handles,              \* the functions $onAction returned, kept by their callers
    mounted,              \* the component in whose setup $onAction may be called is alive
    activePinia,          \* getActivePinia() returns a Pinia instance
    postponedDefs,        \* postponed definition -> its isDefined flag and impl
    lastOp                \* the last operation performed and what its caller saw

bindVars == <<getterRegistry, factoryRegistry, nextPull, bindings, refs>>
actionVars == <<actionSubscriptions, nativeSubs, isDisposed, pending, handles, mounted>>
piniaVars == <<activePinia, postponedDefs>>
vars == <<state, getterRegistry, factoryRegistry, nextPull, bindings, refs, actionSubscriptions,
          nativeSubs,
          isDisposed, pending, handles, mounted, activePinia, postponedDefs, lastOp>>

(***************************************************************************)
(* Bounds of the model.                                                    *)
(***************************************************************************)
MaxDepth == 2
MaxBindings == 2
MaxRun == 3
MaxSubs == 2
MaxPending == 1
MaxInFlight == 2
MaxHandles == 2

(***************************************************************************)
(* JavaScript values.  Every value is a tagged record, so that values of   *)
(* different types compare unequal (===) instead of being incomparable.    *)
(***************************************************************************)
Undefined == [t |-> "undefined"]
Null == [t |-> "null"]
NaN == [t |-> "NaN"]
Num(n) == [t |-> "number", n |-> n]
Str(s) == [t |-> "string", s |-> s]
\* an object: a node of a state tree, or an object built by a combiner
Obj(f) == [t |-> "object", f |-> f]
\* the raw (reactive) node found at path p of store s's $state: its identity
Ref(s, p) == [t |-> "ref", store |-> s, path |-> p]
\* a Proxy with IMMUTABLE_STATE_PROXY_HANDLER over the raw node at path p
View(s, p) == [t |-> "view", store |-> s, path |-> p]
\* a thrown Error object
Error(kind, msg) == [t |-> "error", kind |-> kind, msg |-> msg]

GuardError == Error("ReferenceError", "Mutations in getters are not allowed.")
TypeError == Error("TypeError", "Cannot read properties of undefined")

\* typeof value
TypeOf(v) == CASE v.t \in {"object", "array", "ref", "vueRef", "view", "null", "error"} -> "object"
               [] v.t = "NaN" -> "number"
               [] OTHER -> v.t

IMMUTABLE_STATE_PROXY_UNWRAP_KEY == "Symbol()"

Bool(b) == [t |-> "boolean", b |-> b]
\* an array literal and a function value, as arguments of a getter factory
Arr(items) == [t |-> "array", items |-> items]
Fun(name) == [t |-> "function", name |-> name]
\* ref(value): the Vue ref with this id; the value it holds is in refs
RefArg(id) == [t |-> "vueRef", id |-> id, value |-> Undefined]
InitialRefs == [r1 |-> Str("a"), r2 |-> Obj([k |-> Str("a")]), r3 |-> Obj([k |-> Str("b")])]

Stores == {"A", "B"}

\* the definitions made with postponed(useStore).defineAction / defineGetter, each with the
\* action or getter that store.defineAction / store.defineGetter makes of its arguments
PostponedActions == [postponedSetName |-> "setName", postponedFail |-> "failStatus"]
PostponedGetters == [postponedGetName |-> "getName", postponedGetData |-> "getData"]
Postponed == (DOMAIN PostponedActions) \cup (DOMAIN PostponedGetters)
\* let impl = NOOP_FUNC; let isDefined = false; defines counts the calls of the store's
\* defineAction / defineGetter made for the definition
InitialPostponed == [w \in Postponed |-> [isDefined |-> FALSE, defines |-> 0]]

(***************************************************************************)
(* Outcomes of a call: a returned value or a thrown one, the stores'       *)
(* states after it, and the trace of the calls made.                       *)
(***************************************************************************)
Return(v, st) == [ok |-> TRUE, val |-> v, st |-> st, tr |-> <<>>]
Throw(e, st) == [ok |-> FALSE, val |-> e, st |-> st, tr |-> <<>>]
Traced(tr, o) == [o EXCEPT !.tr = tr \o o.tr]
Event(name, args) == [call |-> name, args |-> args]

(***************************************************************************)
(* State trees.                                                            *)
(***************************************************************************)
RECURSIVE Lookup(_, _)
Lookup(node, p) ==
    IF p = <<>> THEN node
    ELSE IF node.t = "object" /\ Head(p) \in DOMAIN node.f
         THEN Lookup(node.f[Head(p)], Tail(p))
         ELSE Undefined

Put(f, key, v) == [k \in (DOMAIN f) \cup {key} |-> IF k = key THEN v ELSE f[k]]

RECURSIVE SetAt(_, _, _, _)
SetAt(node, p, key, v) ==
    IF p = <<>> THEN Obj(Put(node.f, key, v))
    ELSE Obj([k \in DOMAIN node.f |->
                 IF k = Head(p) THEN SetAt(node.f[k], Tail(p), key, v) ELSE node.f[k]])

\* target[key] on a raw node: a nested object is handed out by reference
RawGet(st, target, key) ==
    LET node == Lookup(st[target.store], target.path)
    IN  IF node.t = "object" /\ key \in DOMAIN node.f
        THEN IF node.f[key].t = "object"
             THEN Ref(target.store, Append(target.path, key))
             ELSE node.f[key]
        ELSE Undefined

\* target[key] = v on a raw node
RawSet(st, target, key, v) ==
    Return(v, [st EXCEPT ![target.store] = SetAt(@, target.path, key, v)])

RECURSIVE DeleteAt(_, _, _)
DeleteAt(node, p, key) ==
    IF p = <<>> THEN Obj([k \in (DOMAIN node.f) \ {key} |-> node.f[k]])
    ELSE Obj([k \in DOMAIN node.f |->
                 IF k = Head(p) THEN DeleteAt(node.f[k], Tail(p), key) ELSE node.f[k]])

\* delete target[key] on a raw node: true is returned
RawDelete(st, target, key) ==
    Return([t |-> "boolean", b |-> TRUE],
           [st EXCEPT ![target.store] = DeleteAt(@, target.path, key)])

\* Object.defineProperty(target, key, {value: v, ...}) on a raw node: the node is returned
RawDefine(st, target, key, v) ==
    Return(target, [st EXCEPT ![target.store] = SetAt(@, target.path, key, v)])

(***************************************************************************)
(* The immutability guard.                                                 *)
(***************************************************************************)
NewProxy(target) == View(target.store, target.path)

HandlerGetShallow(st, target, key) ==
    IF key = IMMUTABLE_STATE_PROXY_UNWRAP_KEY THEN target ELSE RawGet(st, target, key)

HandlerGet(st, target, key) ==
    IF key = IMMUTABLE_STATE_PROXY_UNWRAP_KEY THEN target
    ELSE LET v == RawGet(st, target, key)
         IN  IF TypeOf(v) = "object" /\ v # Null THEN NewProxy(v) ELSE v

HandlerSetWritesThrough(st, target, key, v) == RawSet(st, target, key, v)

HandlerSet(st, target, key, v) == Throw(GuardError, st)

getImmutableStateRaw(s) == Ref(s, <<>>)

getImmutableState(s) == NewProxy(Ref(s, <<>>))

\* x[key] for any value x
PropGet(st, x, key) ==
    CASE x.t = "view" -> Return(HandlerGet(st, Ref(x.store, x.path), key), st)
      [] x.t = "ref" -> Return(RawGet(st, x, key), st)
      [] x.t = "object" -> Return(IF key \in DOMAIN x.f THEN x.f[key] ELSE Undefined, st)
      [] x.t \in {"undefined", "null"} -> Throw(TypeError, st)
      [] OTHER -> Return(Undefined, st)

\* x[key] = v for any value x
PropSet(st, x, key, v) ==
    CASE x.t = "view" -> HandlerSet(st, Ref(x.store, x.path), key, v)
      [] x.t = "ref" -> RawSet(st, x, key, v)
      [] x.t \in {"undefined", "null"} -> Throw(TypeError, st)
      [] OTHER -> Return(v, st)

\* delete x[key]: IMMUTABLE_STATE_PROXY_HANDLER has the traps get and set only, so the
\* proxy forwards the operation to its target
PropDelete(st, x, key) ==
    CASE x.t \in {"view", "ref"} -> RawDelete(st, Ref(x.store, x.path), key)
      [] x.t \in {"undefined", "null"} -> Throw(TypeError, st)
      [] OTHER -> Return([t |-> "boolean", b |-> TRUE], st)

\* Object.defineProperty(x, key, {value: v, writable: true, enumerable: true,
\* configurable: true}): no defineProperty trap either; the call returns x
PropDefine(st, x, key, v) ==
    CASE x.t \in {"view", "ref"} ->
            [RawDefine(st, Ref(x.store, x.path), key, v) EXCEPT !.val = x]
      [] OTHER -> Throw(TypeError, st)

(***************************************************************************)
(* The functions of the application: direct getters and combiners.         *)
(* self is the store bound as the execution context (this).                *)
(***************************************************************************)
Plus(x, y) == IF x.t = "number" /\ y.t = "number" THEN Num(x.n + y.n) ELSE NaN
Minus(x, y) == IF x.t = "number" /\ y.t = "number" THEN Num(x.n - y.n) ELSE NaN

\* x[key] = v; return x[key]
AssignAndRead(st, x, key, v) ==
    LET w == PropSet(st, x, key, v)
    IN  IF ~w.ok THEN w ELSE PropGet(w.st, x, key)

Fn(name, cap, self, args, st) ==
    CASE name = "selData" -> PropGet(st, args[1], "data")
      [] name = "selStatus" -> PropGet(st, args[1], "status")
      [] name = "selCodes" -> PropGet(st, args[1], "codes")
      [] name = "selA" -> PropGet(st, args[1], "a")
      [] name = "selB" -> PropGet(st, args[1], "b")
      [] name = "selName" -> PropGet(st, args[1], "name")
      [] name = "sum" -> Return(Plus(args[1], args[2]), st)
      [] name = "sub" -> Return(Minus(args[1], args[2]), st)
      [] name = "fresh" -> Return(Obj([v |-> args[1]]), st)
      \* function (status) { this.status = 9; return status; }
      [] name = "mutThis" ->
            Return(args[1], RawSet(st, Ref(self, <<>>), "status", Num(9)).st)
      \* state => hasAccess ? state.data : null, without access
      [] name = "noData" -> Return(Null, st)
      \* data => { data.codes = null; return data.codes; }
      [] name = "mutCodes" -> AssignAndRead(st, args[1], "codes", Null)
      \* state => { state.status = 9; return state.status; }
      [] name = "mutStatus" -> AssignAndRead(st, args[1], "status", Num(9))
      \* codes => { codes.a = 9; return codes.a; }
      [] name = "mutA" -> AssignAndRead(st, args[1], "a", Num(9))
      \* state => { state.status = 9; return state.data; }
      [] name = "mutThenData" ->
            LET w == PropSet(st, args[1], "status", Num(9))
            IN  IF ~w.ok THEN w ELSE PropGet(w.st, args[1], "data")

\* cap: the factory arguments the combiner closes over (none outside a factory)
PlainGetter(fn) == [defined |-> FALSE, deps |-> <<>>, fn |-> fn, cap |-> <<>>, store |-> "none"]
DefinedGetter(deps, fn) == [defined |-> TRUE, deps |-> deps, fn |-> fn, cap |-> <<>>, store |-> "A"]

\* the getters of the application (store.defineGetter(...deps, combiner))
GetterDefs ==
    [getRecord |-> PlainGetter("selData"),
     getStatus |-> PlainGetter("selStatus"),
     mutRecord |-> PlainGetter("mutThenData"),
     getData |-> DefinedGetter(<<>>, "selData"),
     getCodes |-> DefinedGetter(<<"getRecord">>, "selCodes"),
     getCodeA |-> DefinedGetter(<<"getCodes">>, "selA"),
     getName |-> DefinedGetter(<<"getRecord">>, "selName"),
     getStatusDirect |-> DefinedGetter(<<>>, "selStatus"),
     getSum |-> DefinedGetter(<<"getStatus", "getCodeA">>, "sum"),
     getDiff |-> DefinedGetter(<<"getStatus", "getCodeA">>, "sub"),
     getSumOfCode |-> DefinedGetter(<<"getCodeA", "getStatus">>, "sum"),
     getFresh |-> DefinedGetter(<<"getStatus">>, "fresh"),
     getMutCodes |-> DefinedGetter(<<"getRecord">>, "mutCodes"),
     getMutStatus |-> DefinedGetter(<<>>, "mutStatus"),
     getMutA |-> DefinedGetter(<<"getCodes">>, "mutA"),
     getViaMutDep |-> DefinedGetter(<<"mutRecord">>, "selName"),
     getCodeB |-> DefinedGetter(<<"getCodes">>, "selB"),
     getNoData |-> DefinedGetter(<<>>, "noData"),
     getViaThis |-> DefinedGetter(<<"getStatus">>, "mutThis")]

GetterNames == DOMAIN GetterDefs

(***************************************************************************)
(* defineGetter: the getter it returns, called with state S.               *)
(***************************************************************************)
RECURSIVE CallGetter(_, _, _)
RECURSIVE DepLoop(_, _, _, _, _, _)
RECURSIVE DepLoopReversed(_, _, _, _, _, _)
RECURSIVE DepLoopSwallows(_, _, _, _, _, _)

DepLoopReversed(deps, i, S, st, combinerArgs, tr) ==
    IF i > Len(deps) THEN [ok |-> TRUE, val |-> combinerArgs, st |-> st, tr |-> tr]
    ELSE LET r == CallGetter(deps[i], S, st)
         IN  IF ~r.ok THEN Traced(tr, r)
             ELSE DepLoopReversed(deps, i + 1, S, r.st, <<r.val>> \o combinerArgs, tr \o r.tr)

DepLoopSwallows(deps, i, S, st, combinerArgs, tr) ==
    IF i > Len(deps) THEN [ok |-> TRUE, val |-> combinerArgs, st |-> st, tr |-> tr]
    ELSE LET r == CallGetter(deps[i], S, st)
         IN  DepLoopSwallows(deps, i + 1, S, r.st,
                             Append(combinerArgs, IF r.ok THEN r.val ELSE Undefined), tr \o r.tr)

\* for (let i = 0; i < args.length; i++) combinerArgs[i] = args[i](state)
DepLoop(deps, i, S, st, combinerArgs, tr) ==
    IF i > Len(deps) THEN [ok |-> TRUE, val |-> combinerArgs, st |-> st, tr |-> tr]
    ELSE LET r == CallGetter(deps[i], S, st)
         IN  IF ~r.ok THEN Traced(tr, r)
             ELSE DepLoop(deps, i + 1, S, r.st, Append(combinerArgs, r.val), tr \o r.tr)

\* combiner.apply(store, combinerArgs)
ApplyCombiner(d, combinerArgs, st) ==
    Traced(<<Event(d.fn, combinerArgs)>>, Fn(d.fn, d.cap, d.store, combinerArgs, st))

CallGetter(g, S, st) ==
    LET d == GetterDefs[g]
    IN  IF ~d.defined THEN Traced(<<Event(g, <<S>>)>>, Fn(d.fn, d.cap, "none", <<S>>, st))
        ELSE IF Len(d.deps) > 0
        THEN LET l == DepLoop(d.deps, 1, S, st, <<>>, <<Event(g, <<S>>)>>)
             IN  IF ~l.ok THEN l
                 ELSE Traced(l.tr, ApplyCombiner(d, l.val, l.st))
        ELSE Traced(<<Event(g, <<S>>)>>, ApplyCombiner(d, <<S>>, st))

\* what the caller sees of an outcome
Seen(o) == [ok |-> o.ok, val |-> o.val, tr |-> o.tr]

(***************************************************************************)
(* Initial states of store A ({data: {name, codes: {a}}, status}) and of   *)
(* store B ({a}).                                                          *)
(***************************************************************************)
TreeA(name, codes, status) == Obj([data |-> Obj([name |-> name, codes |-> codes]), status |-> status])
TreeB(a) == Obj([a |-> a])

Names == {Str("test"), Str("test2")}
CodeValues == {Num(2), Num(5)}
StatusValues == {Num(1), Num(3)}

InitialTrees ==
    {TreeA(n, c, s) : n \in Names, c \in {Obj([a |-> a]) : a \in CodeValues} \cup {Null}, s \in StatusValues}

Keys == {"data", "status", "name", "codes", "a"}

RECURSIVE PathsOfLength(_)
PathsOfLength(n) ==
    IF n = 0 THEN {<<>>}
    ELSE {Append(p, k) : p \in PathsOfLength(n - 1), k \in Keys}

Paths == UNION {PathsOfLength(n) : n \in 0..MaxDepth}

\* view.k1.k2...kn
RECURSIVE ReadPath(_, _, _)
ReadPath(st, x, p) ==
    IF p = <<>> THEN Return(x, st)
    ELSE LET o == PropGet(st, x, Head(p))
         IN  IF ~o.ok THEN o ELSE ReadPath(o.st, o.val, Tail(p))

(***************************************************************************)
(* Specification of the pure parts: getters called by hand with a state    *)
(* (raw or guarded), and reads and writes through an immutable view.       *)
(***************************************************************************)
InitGetter ==
    /\ state \in {[A |-> t, B |-> TreeB(Num(0))] : t \in InitialTrees}
    /\ getterRegistry = <<>>
    /\ factoryRegistry = <<>>
    /\ nextPull = 1
    /\ bindings = <<>>
    /\ refs = InitialRefs
    /\ actionSubscriptions = <<>>
    /\ nativeSubs = [s \in Stores |-> <<>>]
    /\ isDisposed = [s \in Stores |-> FALSE]
    /\ pending = <<>>
    /\ handles = <<>>
    /\ mounted = TRUE
    /\ activePinia = TRUE
    /\ postponedDefs = InitialPostponed
    /\ lastOp = [op |-> "init"]

\* getter(state), with the raw state or with an immutable view of it
ManualCall(g, S) ==
    LET o == CallGetter(g, S, state)
    IN  /\ state' = o.st
        /\ lastOp' = [op |-> "getter", getter |-> g, arg |-> S, pre |-> state, out |-> Seen(o)]
        /\ UNCHANGED <<piniaVars, bindVars, actionVars>>

\* const v = view.k1...kn
ViewRead(p) ==
    LET o == ReadPath(state, getImmutableState("A"), p)
    IN  /\ state' = o.st
        /\ lastOp' = [op |-> "viewRead", path |-> p, pre |-> state, out |-> Seen(o)]
        /\ UNCHANGED <<piniaVars, bindVars, actionVars>>

\* view.k1...kn.key = v, where view.k1...kn is an object
ViewWrite(p, key, v) ==
    LET x == ReadPath(state, getImmutableState("A"), p)
    IN  /\ x.ok
        /\ TypeOf(x.val) = "object" /\ x.val # Null
        /\ LET o == PropSet(x.st, x.val, key, v)
           IN  /\ state' = o.st
               /\ lastOp' = [op |-> "viewWrite", path |-> p, key |-> key, pre |-> state,
                             target |-> x.val, out |-> Seen(o)]
        /\ UNCHANGED <<piniaVars, bindVars, actionVars>>

\* delete view.k1...kn.key and Object.defineProperty(view.k1...kn, key, {value: v})
ViewChange(kind, p, key, v) ==
    LET x == ReadPath(state, getImmutableState("A"), p)
    IN  /\ x.ok
        /\ TypeOf(x.val) = "object" /\ x.val # Null
        /\ LET o == IF kind = "delete" THEN PropDelete(x.st, x.val, key)
                    ELSE PropDefine(x.st, x.val, key, v)
           IN  /\ state' = o.st
               /\ lastOp' = [op |-> kind, path |-> p, key |-> key, pre |-> state,
                             target |-> x.val, out |-> Seen(o)]
        /\ UNCHANGED <<piniaVars, bindVars, actionVars>>

NextGetter ==
    \/ \E g \in GetterNames, S \in {Ref("A", <<>>), getImmutableState("A")} : ManualCall(g, S)
    \/ \E p \in Paths : ViewRead(p)
    \/ \E p \in Paths, key \in Keys, v \in {Num(7), Null} : ViewWrite(p, key, v)

SpecGetter == InitGetter /\ [][NextGetter]_vars

(***************************************************************************)
(* Subscriptions (pinia-subscriptions.ts) and external actions             *)
(* (plugin.ts, defineAction).                                              *)
(***************************************************************************)
DisposedError == Error("ReferenceError", "Failed to dispatch action on disposed store.")
AppError == Error("Error", "Error!")
\* a Promise returned by an async combiner, still pending
Promise == [t |-> "promise"]

\* the external actions of the application (store.defineAction(combiner))
ActionDefs ==
    [setName |-> [store |-> "A", async |-> FALSE],
     setStatus |-> [store |-> "A", async |-> FALSE],
     failStatus |-> [store |-> "A", async |-> FALSE],
     asyncSet |-> [store |-> "A", async |-> TRUE],
     asyncFail |-> [store |-> "A", async |-> TRUE],
     setB |-> [store |-> "B", async |-> FALSE],
     addStatus |-> [store |-> "A", async |-> FALSE]]

ActionNames == DOMAIN ActionDefs

\* combiner.apply(store, args), up to its return: the combiners of the application
ActionBody(a, args, st) ==
    LET self == ActionDefs[a].store
    IN  CASE a = "setName" ->     \* function (name) { this.data.name = name; }
                Return(Undefined, RawSet(st, Ref(self, <<"data">>), "name", args[1]).st)
          [] a = "setStatus" ->   \* function (a) { this.status = a; return a; }
                Return(args[1], RawSet(st, Ref(self, <<>>), "status", args[1]).st)
          [] a = "failStatus" ->  \* function (a) { this.status = a; throw new Error("Error!"); }
                Throw(AppError, RawSet(st, Ref(self, <<>>), "status", args[1]).st)
          [] a = "setB" ->        \* function (b) { this.a = b; return b; }
                Return(args[1], RawSet(st, Ref(self, <<>>), "a", args[1]).st)
          [] a = "addStatus" ->   \* function (a, b) { this.status = a + b; }
                Return(Undefined, RawSet(st, Ref(self, <<>>), "status", Plus(args[1], args[2])).st)
          [] OTHER ->             \* async function (a) { return await new Promise(...); }
                Return(Promise, st)

\* the timer of an async combiner fires: this.status = a; resolve(a) or reject("Error!")
ActionSettle(a, args, st) ==
    LET self == ActionDefs[a].store
    IN  CASE a = "asyncSet" -> Return(args[1], RawSet(st, Ref(self, <<>>), "status", args[1]).st)
          [] a = "asyncFail" -> Throw(Str("Error!"), RawSet(st, Ref(self, <<>>), "status", args[1]).st)

\* the callbacks given to $onAction: what each does with the context it is called with
CallbackDefs ==
    [\* (context) => {}
     spy |-> [after |-> FALSE, onError |-> FALSE, ret |-> Undefined],
     \* ({after, onError}) => { after(result => 99); onError(error => {}); }
     watcher |-> [after |-> TRUE, onError |-> TRUE, ret |-> Num(99)]]

Callbacks == DOMAIN CallbackDefs

\* one entry of the log of an invocation
Ev(e, list, cb, arg) == [e |-> e, list |-> list, cb |-> cb, arg |-> arg]

TriggerFirstOnly(list, subscriptions, arg) ==
    <<Ev("trigger", list, "-", arg)>>
    \o [i \in 1..(IF Len(subscriptions) > 0 THEN 1 ELSE 0) |-> Ev("callback", list, subscriptions[i], arg)]

\* subscriptions.slice().forEach(callback => callback(...args))
triggerSubscriptions(list, subscriptions, arg) ==
    <<Ev("trigger", list, "-", arg)>>
    \o [i \in 1..Len(subscriptions) |-> Ev("callback", list, subscriptions[i], arg)]

\* the hooks the notified subscribers push with after(callback) and onError(callback)
afterCallbackList(subscriptions) == SelectSeq(subscriptions, LAMBDA cb : CallbackDefs[cb].after)
onErrorCallbackList(subscriptions) == SelectSeq(subscriptions, LAMBDA cb : CallbackDefs[cb].onError)

Invocation(ok, val, st, log, isPending, subscriptions) ==
    [ok |-> ok, val |-> val, st |-> st, log |-> log, pending |-> isPending,
     afterList |-> afterCallbackList(subscriptions),
     onErrorList |-> onErrorCallbackList(subscriptions)]

SyncThrowSilent(subscriptions, error) == <<Ev("throw", "-", "-", error)>>

\* catch (error) { triggerSubscriptions(onErrorCallbackList, error); throw error; }
SyncThrow(subscriptions, error) ==
    triggerSubscriptions("onErrorCallbackList", onErrorCallbackList(subscriptions), error)
    \o <<Ev("throw", "-", "-", error)>>

\* triggerSubscriptions(afterCallbackList, actionResult); return actionResult;
SyncReturn(subscriptions, actionResult) ==
    triggerSubscriptions("afterCallbackList", afterCallbackList(subscriptions), actionResult)
    \o <<Ev("return", "-", "-", actionResult)>>

ExternalActionOfDisposed(a, args, st, subscriptions, disposed) ==
    LET store == ActionDefs[a].store
        context == [t |-> "context", store |-> store, args |-> args]
        body == ActionBody(a, args, st)
        ran == triggerSubscriptions("actionSubscriptions", subscriptions, context)
               \o <<Ev("combiner", "-", "-", Undefined)>>
    IN  IF ~body.ok
        THEN Invocation(FALSE, body.val, body.st, ran \o SyncThrow(subscriptions, body.val),
                        FALSE, subscriptions)
        ELSE IF body.val = Promise
        THEN Invocation(TRUE, Promise, body.st, ran, TRUE, subscriptions)
        ELSE Invocation(TRUE, body.val, body.st, ran \o SyncReturn(subscriptions, body.val),
                        FALSE, subscriptions)

\* the action defineAction returns, called with args
ExternalAction(a, args, st, subscriptions, disposed) ==
    LET store == ActionDefs[a].store
        context == [t |-> "context", store |-> store, args |-> args]
        before == triggerSubscriptions("actionSubscriptions", subscriptions, context)
        body == ActionBody(a, args, st)
        ran == before \o <<Ev("combiner", "-", "-", Undefined)>>
    IN  IF disposed[store]
        THEN Invocation(FALSE, DisposedError, st, <<Ev("throw", "-", "-", DisposedError)>>, FALSE, <<>>)
        ELSE IF ~body.ok
        THEN Invocation(FALSE, body.val, body.st, ran \o SyncThrow(subscriptions, body.val),
                        FALSE, subscriptions)
        ELSE IF body.val = Promise
        THEN Invocation(TRUE, Promise, body.st, ran, TRUE, subscriptions)
        ELSE Invocation(TRUE, body.val, body.st, ran \o SyncReturn(subscriptions, body.val),
                        FALSE, subscriptions)

ThenHandlerSkipsHooks(afterList, value) == [ok |-> TRUE, val |-> value, log |-> <<>>]

\* .then(value => { triggerSubscriptions(afterCallbackList, value); return value; })
ThenHandler(afterList, value) ==
    [ok |-> TRUE, val |-> value,
     log |-> triggerSubscriptions("afterCallbackList", afterList, value)]

CatchHandlerSwallows(onErrorList, error) ==
    [ok |-> TRUE, val |-> Undefined,
     log |-> triggerSubscriptions("onErrorCallbackList", onErrorList, error)]

\* .catch(error => { triggerSubscriptions(onErrorCallbackList, error); return Promise.reject(error); })
CatchHandler(onErrorList, error) ==
    [ok |-> FALSE, val |-> error,
     log |-> triggerSubscriptions("onErrorCallbackList", onErrorList, error)]

\* hook lists kept by the module for all invocations instead of one pair per invocation
SettleChainOfAll(inv, body) ==
    LET after == afterCallbackList(actionSubscriptions)
        onError == onErrorCallbackList(actionSubscriptions)
        log == IF body.ok THEN triggerSubscriptions("afterCallbackList", after, body.val)
               ELSE triggerSubscriptions("onErrorCallbackList", onError, body.val)
    IN  [ok |-> body.ok, val |-> body.val,
         log |-> log \o <<Ev(IF body.ok THEN "resolve" ELSE "reject", "-", "-", body.val)>>]

\* the promise the action returned settles: actionResult.then(...).catch(...)
SettleChain(inv, body) ==
    LET t == IF body.ok THEN ThenHandler(inv.afterList, body.val)
             ELSE [ok |-> FALSE, val |-> body.val, log |-> <<>>]
        c == IF t.ok THEN t
             ELSE LET h == CatchHandler(inv.onErrorList, t.val)
                  IN  [h EXCEPT !.log = t.log \o h.log]
    IN  [ok |-> c.ok, val |-> c.val,
         log |-> c.log \o <<Ev(IF c.ok THEN "resolve" ELSE "reject", "-", "-", c.val)>>]

(***************************************************************************)
(* The composition functions (getters-utils.ts): useGetter.                *)
(***************************************************************************)
\* the function useGetter stores in the registry: a closure over getter
PullFunction(id, g) == [id |-> id, getter |-> g, factory |-> "none", args |-> <<>>]

\* the get closure of useGetterFactory: a closure over getterFactory and args
FactoryPullFunction(id, f, args) == [id |-> id, getter |-> "none", factory |-> f, args |-> args]

OBJECT_TYPES_TYPEOF_VALUES == {"object", "function"}

isRef(v) == v.t = "vueRef"
\* an argument as the code sees it now: a ref with the value it currently holds
Deref(arg) == IF arg.t = "vueRef" THEN [arg EXCEPT !.value = refs[arg.id]] ELSE arg
unref(v) == IF isRef(v) THEN v.value ELSE v

\* isRef(variable) && OBJECT_TYPES_TYPEOF_VALUES.includes(typeof variable.value)
isRefOfPrimitive(variable) ==
    isRef(variable) /\ TypeOf(variable.value) \in OBJECT_TYPES_TYPEOF_VALUES

DigitChars == <<"0", "1", "2", "3", "4", "5", "6", "7", "8", "9">>

RECURSIVE NumberToString(_)
\* String(n) of an integer
NumberToString(n) ==
    IF n < 0 THEN "-" \o NumberToString(0 - n)
    ELSE IF n < 10 THEN DigitChars[n + 1]
    ELSE NumberToString(n \div 10) \o DigitChars[(n % 10) + 1]

\* String(v) as Array.prototype.toString joins it: null and undefined give ""
ElementToString(v) ==
    CASE v.t = "string" -> v.s
      [] v.t = "number" -> NumberToString(v.n)
      [] v.t = "NaN" -> "NaN"
      [] v.t = "boolean" -> IF v.b THEN "true" ELSE "false"
      [] v.t \in {"undefined", "null"} -> ""
      [] OTHER -> "[object Object]"

RECURSIVE ArrayToString(_)
\* array.toString(): the elements' strings joined with ","
ArrayToString(a) ==
    IF a = <<>> THEN ""
    ELSE IF Len(a) = 1 THEN ElementToString(a[1])
    ELSE ElementToString(a[1]) \o "," \o ArrayToString(Tail(a))

\* the condition of `hasAccess ? ... : ...`: false, 0, NaN, "", null and undefined are falsy
ToBoolean(v) ==
    CASE v.t = "boolean" -> v.b
      [] v.t = "number" -> v.n # 0
      [] v.t = "string" -> v.s # ""
      [] v.t \in {"undefined", "null", "NaN"} -> FALSE
      [] OTHER -> TRUE

\* the getter factories of the application and the getter each returns:
\*   key => store.defineGetter(getCodes, codes => codes[key])
\*   key => store.defineGetter(getCodes, codes => { codes[key] = 9; return codes[key]; })
\* where key is the argument or, for an object argument, its property k, and
\*   hasAccess => store.defineGetter(state => hasAccess ? state.data : null)
\*   key => store.defineGetter(getStatus, function (status) { this.status = 9; return status; })
GetterFactory(f, argsValues) ==
    LET key == IF argsValues[1].t = "object" THEN argsValues[1].f.k ELSE argsValues[1]
    IN  CASE f = "createGetCode" /\ key = Str("a") -> "getCodeA"
          [] f = "createMutCode" /\ key = Str("a") -> "getMutA"
          [] f = "createGetData" -> IF ToBoolean(key) THEN "getData" ELSE "getNoData"
          [] f = "createViaThis" -> "getViaThis"
          [] OTHER -> "getCodeB"

GetterFactories == {"createGetCode", "createMutCode"}
FactoryArgs == {<<Str("a")>>, <<Obj([k |-> Str("a")])>>}

checkImmutabilityNever(value) == FALSE

\* typeof value === "object" && value !== null
checkImmutability(value) == TypeOf(value) = "object" /\ value # Null

\* () => { const state = getImmutableState(getter.store.$state);
\*         const getterResult = getter(state);
\*         return checkImmutability(getterResult) ? getterResult?.[UNWRAP_KEY] : getterResult; }
\* The get closure of useGetterFactory first computes its getter:
\*         argsValues[i] = isRef(arg) ? arg.value : arg;
\*         const getter = getterFactory.apply(null, argsValues);
\* and continues with the same three statements.
Pull(get, st) ==
    LET getter == IF get.factory = "none" THEN get.getter
                  ELSE GetterFactory(get.factory,
                                     [i \in DOMAIN get.args |-> unref(Deref(get.args[i]))])
        d == GetterDefs[getter]
    IN  IF d.store = "none" THEN Throw(TypeError, st)
        ELSE LET r == CallGetter(getter, getImmutableState(d.store), st)
             IN  IF r.ok /\ checkImmutability(r.val)
                 THEN [r EXCEPT !.val = PropGet(r.st, r.val, IMMUTABLE_STATE_PROXY_UNWRAP_KEY).val]
                 ELSE r

RegisterPullAlways(registry, g, id) == Put(registry, g, PullFunction(id, g))

\* if (!getterRegistry.get(getter)) getterRegistry.set(getter, () => {...})
RegisterPull(registry, g, id) ==
    IF g \notin DOMAIN registry THEN Put(registry, g, PullFunction(id, g)) ELSE registry

\* call: the arguments useGetterFactory was called with to make this ref.
\* computed(get) or computed({get, set}); payload is the additionalPayload array the set
\* closure holds, given its contents at binding time; previousValue is the set closure's variable,
\* declared without a value.  evaluated: the pull function has run for this ref.  run*: the current run of assignments of one value through
\* this binding (its length, and the calls of the action made during it).
Computed(g, get, action, payload) ==
    [getter |-> g, get |-> get, action |-> action, payload |-> payload, given |-> payload,
     previousValue |-> Undefined, dirty |-> TRUE, cached |-> Undefined, evaluated |-> FALSE,
     call |-> <<>>,
     runVal |-> Undefined, runLen |-> 0, runCalls |-> 0]

\* a change of reactive state invalidates the computed refs that read it
Invalidate(bs, changed) ==
    IF changed THEN [k \in DOMAIN bs |-> [bs[k] EXCEPT !.dirty = TRUE]] ELSE bs

\* the getters bound in components and the actions used as setters
BoundGetters ==
    {"getSum", "getData", "getFresh", "getMutCodes", "getViaMutDep"}
MutatingGetters == {"getMutCodes", "getMutStatus", "getMutA", "getViaMutDep"}
SetterActions == {"setStatus"}
WrittenValues == {Num(3), Undefined, NaN}

\* useGetter(getter) and useGetter(getter, action, ...additionalPayload)
UseGetter(g, action, payload) ==
    /\ Len(bindings) < MaxBindings
    /\ LET registry == RegisterPull(getterRegistry, g, nextPull)
       IN  /\ getterRegistry' = registry
           /\ nextPull' = IF registry = getterRegistry THEN nextPull ELSE nextPull + 1
           /\ bindings' = Append(bindings, Computed(g, registry[g], action, payload))
    /\ lastOp' = [op |-> "bind", getter |-> g, pre |-> state, evals |-> 0, returned |-> TRUE]
    /\ UNCHANGED <<piniaVars, state, factoryRegistry, refs, actionVars>>

ShouldNeverRecompute(args) == FALSE

\* args.some(arg => arg !== null && OBJECT_TYPES_TYPEOF_VALUES.includes(typeof arg)
\*                  && !isRefOfPrimitive(arg))
ShouldAlwaysRecompute(args) ==
    \E i \in DOMAIN args :
       /\ args[i] # Null
       /\ TypeOf(args[i]) \in OBJECT_TYPES_TYPEOF_VALUES
       /\ ~isRefOfPrimitive(args[i])

\* args.map(arg => isRef(arg) ? arg.value : arg).toString()
FactoryKey(args) == ArrayToString([i \in DOMAIN args |-> unref(args[i])])

ShouldCreateAlways(shouldAlwaysRecompute, registry, key) == TRUE

\* if (shouldAlwaysRecompute || !getterRegistry.get(key))
ShouldCreate(shouldAlwaysRecompute, registry, key) ==
    shouldAlwaysRecompute \/ key \notin DOMAIN registry

\* useGetterFactory(getterFactory, ...args)
UseGetterFactory(f, args) ==
    /\ Len(bindings) < MaxBindings
    /\ LET now == [i \in DOMAIN args |-> Deref(args[i])]
           shouldAlwaysRecompute == ShouldAlwaysRecompute(now)
           key == IF shouldAlwaysRecompute THEN "undefined" ELSE FactoryKey(now)
           \* if (!factoryRegistry.get(getterFactory)) factoryRegistry.set(getterFactory, new Map())
           registry == IF f \notin DOMAIN factoryRegistry THEN Put(factoryRegistry, f, <<>>)
                       ELSE factoryRegistry
           create == ShouldCreate(shouldAlwaysRecompute, registry[f], key)
           get == FactoryPullFunction(nextPull, f, args)
           stored == IF create /\ ~shouldAlwaysRecompute
                     THEN Put(registry, f, Put(registry[f], key, get))
                     ELSE registry
           used == IF shouldAlwaysRecompute THEN get ELSE stored[f][key]
           getter == GetterFactory(f, [i \in DOMAIN now |-> unref(now[i])])
       IN  /\ factoryRegistry' = stored
           /\ nextPull' = IF create THEN nextPull + 1 ELSE nextPull
           /\ bindings' = Append(bindings,
                                  [Computed(getter, used, "none", <<>>) EXCEPT !.call = args])
           /\ lastOp' = [op |-> "bindFactory", getter |-> getter, pre |-> state, evals |-> 0,
                         factory |-> f, args |-> now, registry |-> factoryRegistry,
                         nextPull |-> nextPull, get |-> used]
    /\ UNCHANGED <<piniaVars, state, getterRegistry, refs, actionVars>>

\* ref.value = v: the computed refs that read the ref are invalidated
SetRef(r, v) ==
    /\ refs' = [refs EXCEPT ![r] = v]
    /\ bindings' = Invalidate(bindings, refs[r] # v)
    /\ lastOp' = [op |-> "setRef", ref |-> r]
    /\ UNCHANGED <<piniaVars, state, getterRegistry, factoryRegistry, nextPull, actionVars>>

\* the number of calls of getter g made during an evaluation
Evaluations(g, tr) == Cardinality({k \in DOMAIN tr : tr[k].call = g})

\* binding.value: the computed ref evaluates its pull function when it is dirty
Read(i) ==
    LET b == bindings[i]
        o == IF b.dirty THEN Pull(b.get, state) ELSE Return(b.cached, state)
    IN  /\ state' = o.st
        /\ bindings' = Invalidate([bindings EXCEPT ![i] =
                                      IF b.dirty /\ o.ok
                                      THEN [@ EXCEPT !.dirty = FALSE, !.cached = o.val,
                                                     !.evaluated = TRUE]
                                      ELSE @],
                                  o.st # state)
        /\ lastOp' = [op |-> "read", binding |-> i, getter |-> b.getter, pre |-> state,
                      out |-> Seen(o), evals |-> Evaluations(b.getter, o.tr),
                      reevaluated |-> b.evaluated /\ b.dirty,
                      follows |-> IF lastOp.op = "assign" THEN lastOp ELSE [op |-> "none"]]
        /\ UNCHANGED <<piniaVars, getterRegistry, factoryRegistry, nextPull, refs, actionVars>>

\* const node = binding.value, read before; node.k1...kn.key = v in the component
Assign(i, p, key, v) ==
    LET b == bindings[i]
        x == ReadPath(state, b.cached, p)
    IN  /\ b.evaluated /\ ~b.dirty
        /\ x.ok
        /\ TypeOf(x.val) = "object" /\ x.val # Null
        /\ LET o == PropSet(x.st, x.val, key, v)
           IN  /\ state' = o.st
               /\ bindings' = Invalidate(bindings, o.st # state)
               /\ lastOp' = [op |-> "assign", binding |-> i, held |-> b.cached, path |-> p,
                             key |-> key, value |-> v, pre |-> state, out |-> Seen(o)]
        /\ UNCHANGED <<piniaVars, getterRegistry, factoryRegistry, nextPull, refs, actionVars>>

\* a === b: NaN is not equal to itself
StrictEquals(a, b) == a = b /\ a # NaN

\* functions that are no external actions, given to useGetter as the setter:
\*   function (a, b) { this.status = a + b; }
SetterFunctions == {"plainAdd"}

\* action.apply(thisArg, args): an external action is an arrow function and runs its combiner
\* with its own store, a plain function runs with thisArg
Apply(action, thisArg, args, st, subscriptions, disposed) ==
    IF action \in ActionNames
    THEN ExternalAction(action, args, st, subscriptions, disposed)
    ELSE Invocation(TRUE, Undefined,
                    RawSet(st, Ref(thisArg, <<>>), "status", Plus(args[1], args[2])).st,
                    <<>>, FALSE, <<>>)

SetPayloadInPlace(value, additionalPayload) ==
    [payload |-> <<value>> \o additionalPayload, additionalPayload |-> <<value>> \o additionalPayload]

\* const payload = additionalPayload.slice(0); payload.unshift(value);
SetPayload(value, additionalPayload) ==
    [payload |-> <<value>> \o additionalPayload, additionalPayload |-> additionalPayload]

\* (value) => { if (value === previousValue) return; ...; previousValue = value;
\*              payload.unshift(value); action.apply(getter.store, payload); }
Set(b, value, st, subscriptions, disposed) ==
    LET p == SetPayload(value, b.payload)
        thisArg == GetterDefs[b.getter].store
    IN  IF StrictEquals(value, b.previousValue)
        THEN [called |-> FALSE, previousValue |-> b.previousValue,
              additionalPayload |-> b.payload, call |-> [this |-> "none", args |-> <<>>],
              inv |-> Invocation(TRUE, Undefined, st, <<>>, FALSE, <<>>)]
        ELSE [called |-> TRUE, previousValue |-> value,
              additionalPayload |-> p.additionalPayload,
              call |-> [this |-> thisArg, args |-> p.payload],
              inv |-> Apply(b.action, thisArg, p.payload, st, subscriptions, disposed)]

\* binding.value = value
Write(i, value) ==
    LET b == bindings[i]
        sameRun == b.runLen > 0 /\ b.runVal = value
        w == Set(b, value, state, actionSubscriptions, isDisposed)
        calls == IF w.called THEN 1 ELSE 0
    IN  /\ b.action # "none"
        /\ sameRun => b.runLen < MaxRun
        /\ state' = w.inv.st
        /\ bindings' = Invalidate([bindings EXCEPT ![i] =
                                      [@ EXCEPT !.previousValue = w.previousValue,
                                                !.payload = w.additionalPayload,
                                                !.runVal = value,
                                                !.runLen = IF sameRun THEN @ + 1 ELSE 1,
                                                !.runCalls = IF sameRun THEN @ + calls ELSE calls]],
                                  w.inv.st # state)
        /\ lastOp' = [op |-> "write", binding |-> i, value |-> value, pre |-> state,
                      earlier |-> b.runLen > 0, last |-> b.runVal,
                      called |-> w.called, call |-> w.call, log |-> w.inv.log,
                      out |-> [ok |-> w.inv.ok, val |-> w.inv.val]]
        /\ UNCHANGED <<piniaVars, getterRegistry, factoryRegistry, nextPull, refs, actionVars>>

\* action(...args): an external action called directly, while fewer than limit
\* asynchronous invocations are in flight
DispatchWithin(a, args, limit) ==
    LET inv == ExternalAction(a, args, state, actionSubscriptions, isDisposed)
    IN  /\ ActionDefs[a].async => Len(pending) < limit
        /\ state' = inv.st
        /\ bindings' = Invalidate(bindings, inv.st # state)
        /\ pending' = IF inv.pending
                      THEN Append(pending, [action |-> a, args |-> args,
                                            afterList |-> inv.afterList,
                                            onErrorList |-> inv.onErrorList])
                      ELSE pending
        /\ lastOp' = [op |-> "call", action |-> a, args |-> args, pre |-> state,
                      disposed |-> isDisposed[ActionDefs[a].store],
                      registered |-> nativeSubs[ActionDefs[a].store],
                      subscriptions |-> actionSubscriptions,
                      log |-> inv.log, queued |-> inv.pending,
                      out |-> [ok |-> inv.ok, val |-> inv.val]]
        /\ UNCHANGED <<piniaVars, getterRegistry, factoryRegistry, nextPull, refs, actionSubscriptions, nativeSubs, isDisposed,
                       handles, mounted>>

Dispatch(a, args) == DispatchWithin(a, args, MaxPending)

RemoveAt(seq, i) == [k \in 1..(Len(seq) - 1) |-> IF k < i THEN seq[k] ELSE seq[k + 1]]

\* the promise returned by the combiner of a pending invocation settles
Settle(i) ==
    LET inv == pending[i]
        body == ActionSettle(inv.action, inv.args, state)
        chain == SettleChain(inv, body)
    IN  /\ state' = body.st
        /\ bindings' = Invalidate(bindings, body.st # state)
        /\ pending' = RemoveAt(pending, i)
        /\ lastOp' = [op |-> "settle", action |-> inv.action, args |-> inv.args, pre |-> state,
                      disposed |-> isDisposed[ActionDefs[inv.action].store],
                      inFlight |-> Len(pending),
                      afterList |-> inv.afterList, onErrorList |-> inv.onErrorList,
                      log |-> chain.log, out |-> [ok |-> chain.ok, val |-> chain.val]]
        /\ UNCHANGED <<piniaVars, getterRegistry, factoryRegistry, nextPull, refs, actionSubscriptions, nativeSubs, isDisposed,
                       handles, mounted>>

\* store.$onAction(callback), called outside of a component
OnAction(s, callback) ==
    /\ Len(actionSubscriptions) < MaxSubs
    /\ Len(nativeSubs[s]) < MaxSubs
    \* addSubscription: subscriptions.push(callback)
    /\ actionSubscriptions' = Append(actionSubscriptions, callback)
    \* onAction(callback, detached): Pinia's own registration on this store
    /\ nativeSubs' = [nativeSubs EXCEPT ![s] = Append(@, callback)]
    /\ lastOp' = [op |-> "onAction"]
    /\ UNCHANGED <<piniaVars, state, bindVars, isDisposed, pending, handles, mounted>>

\* The function $onAction returns, and the one it hands to onUnmounted:
\* removeSubscription (of the array actionSubscriptions named at registration) and
\* removeOriginalSubscription (of Pinia's array of the store).  current / nativeCurrent:
\* that array is still the one the module variable / the store holds.  scoped: the
\* registration handed the function to onUnmounted.  removed: the function has run.
Handle(s, callback, scoped) ==
    [callback |-> callback, store |-> s, scoped |-> scoped,
     current |-> TRUE, nativeCurrent |-> TRUE, removed |-> FALSE]

\* subscriptions.indexOf(callback), from 1; 0 when absent
IndexOf(subscriptions, callback) ==
    IF \E k \in DOMAIN subscriptions : subscriptions[k] = callback
    THEN CHOOSE k \in DOMAIN subscriptions :
            /\ subscriptions[k] = callback
            /\ \A j \in 1..(k - 1) : subscriptions[j] # callback
    ELSE 0

\* const idx = subscriptions.indexOf(callback); if (idx > -1) subscriptions.splice(idx, 1)
removeSubscription(subscriptions, callback) ==
    IF IndexOf(subscriptions, callback) > 0
    THEN RemoveAt(subscriptions, IndexOf(subscriptions, callback))
    ELSE subscriptions

\* the function $onAction returned runs: () => { removeSubscription(); removeOriginalSubscription(); }
\* lists: [plugin |-> actionSubscriptions, native |-> nativeSubs]
RunHandle(lists, h) ==
    [plugin |-> IF h.current THEN removeSubscription(lists.plugin, h.callback)
                ELSE lists.plugin,
     native |-> IF h.nativeCurrent
                THEN [lists.native EXCEPT ![h.store] = removeSubscription(@, h.callback)]
                ELSE lists.native]

RECURSIVE RunHandles(_, _)
\* the onUnmounted hooks of a component run in the order they were registered
RunHandles(lists, hs) ==
    IF hs = <<>> THEN lists ELSE RunHandles(RunHandle(lists, Head(hs)), Tail(hs))

\* store.$onAction(callback, detached), called in the setup of the component
\* (inComponent) or outside of any; the caller keeps the function it returns
Subscribe(s, callback, detached, inComponent) ==
    /\ Len(actionSubscriptions) < MaxSubs
    /\ Len(nativeSubs[s]) < MaxSubs
    /\ Len(handles) < MaxHandles
    /\ inComponent => mounted
    /\ actionSubscriptions' = Append(actionSubscriptions, callback)
    /\ nativeSubs' = [nativeSubs EXCEPT ![s] = Append(@, callback)]
    \* if (!detached && getCurrentInstance()) onUnmounted(removeSubscription)
    /\ handles' = Append(handles, Handle(s, callback, ~detached /\ inComponent))
    /\ lastOp' = [op |-> "subscribe", handle |-> Len(handles) + 1]
    /\ UNCHANGED <<piniaVars, state, bindVars, isDisposed, pending, mounted>>

\* the caller of $onAction calls the function it returned
Unsubscribe(i) ==
    LET after == RunHandle([plugin |-> actionSubscriptions, native |-> nativeSubs], handles[i])
    IN  /\ actionSubscriptions' = after.plugin
        /\ nativeSubs' = after.native
        /\ handles' = [handles EXCEPT ![i].removed = TRUE]
        /\ lastOp' = [op |-> "unsubscribe", handle |-> i, first |-> ~handles[i].removed,
                      subscriptions |-> actionSubscriptions, registered |-> nativeSubs]
        /\ UNCHANGED <<piniaVars, state, bindVars, isDisposed, pending, mounted>>

\* the component unmounts: its onUnmounted hooks run
Unmount ==
    LET scoped == SelectSeq(handles, LAMBDA h : h.scoped)
        after == RunHandles([plugin |-> actionSubscriptions, native |-> nativeSubs], scoped)
    IN  /\ mounted
        /\ mounted' = FALSE
        /\ actionSubscriptions' = after.plugin
        /\ nativeSubs' = after.native
        /\ handles' = [i \in DOMAIN handles |->
                          IF handles[i].scoped THEN [handles[i] EXCEPT !.removed = TRUE]
                          ELSE handles[i]]
        /\ lastOp' = [op |-> "unmount", was |-> handles,
                      subscriptions |-> actionSubscriptions, registered |-> nativeSubs]
        /\ UNCHANGED <<piniaVars, state, bindVars, isDisposed, pending>>

\* a native action of store s (actions: { setA (a) { this.a = a; } }) is called: Pinia
\* notifies the store's own subscribers, then runs the action
NativeAction(s, v) ==
    LET context == [t |-> "context", store |-> s, args |-> <<v>>]
        key == IF s = "A" THEN "status" ELSE "a"
        st == RawSet(state, Ref(s, <<>>), key, v).st
    IN  /\ state' = st
        /\ bindings' = Invalidate(bindings, st # state)
        /\ lastOp' = [op |-> "native", store |-> s, disposed |-> isDisposed[s],
                      registered |-> nativeSubs[s], subscriptions |-> actionSubscriptions,
                      log |-> triggerSubscriptions("nativeSubs", nativeSubs[s], context)
                              \o <<Ev("combiner", "-", "-", Undefined)>>]
        /\ UNCHANGED <<piniaVars, getterRegistry, factoryRegistry, nextPull, refs, actionVars>>

\* store.$dispose()
Dispose(s) ==
    /\ isDisposed' = [isDisposed EXCEPT ![s] = TRUE]
    /\ actionSubscriptions' = <<>>
    \* dispose(): Pinia's own disposal drops the store's subscriptions
    /\ nativeSubs' = [nativeSubs EXCEPT ![s] = <<>>]
    \* the functions returned so far still name the arrays that were replaced
    /\ handles' = [i \in DOMAIN handles |->
                      [handles[i] EXCEPT !.current = FALSE,
                                         !.nativeCurrent = IF handles[i].store = s THEN FALSE ELSE @]]
    /\ lastOp' = [op |-> "dispose"]
    /\ UNCHANGED <<piniaVars, state, bindVars, pending, mounted>>

(***************************************************************************)
(* Subscribers that register and remove subscriptions from inside their    *)
(* callback, while the store notifies them.                                *)
(***************************************************************************)
\* the callbacks given to $onAction of store A:
\*   joiner:  ({store}) => { store.$onAction(spy); }
\*   quitter: () => { stopQuitter(); }   with stopQuitter = store.$onAction(quitter)
\*   remover: () => { stopSpy(); }       with stopSpy = store.$onAction(spy)
\*   spy:     () => {}
ReentrantCallbacks == {"joiner", "quitter", "remover", "spy"}

\* what a call of the callback does to the lists: addSubscription pushes to the array,
\* the function $onAction returned splices the first index of its callback out of it
CallbackRuns(callback, lists) ==
    CASE callback = "joiner" ->
            [plugin |-> Append(lists.plugin, "spy"), native |-> Append(lists.native, "spy")]
      [] callback = "quitter" ->
            [plugin |-> removeSubscription(lists.plugin, "quitter"),
             native |-> removeSubscription(lists.native, "quitter")]
      [] callback = "remover" ->
            [plugin |-> removeSubscription(lists.plugin, "spy"),
             native |-> removeSubscription(lists.native, "spy")]
      [] OTHER -> lists

RECURSIVE TriggerLoop(_, _, _, _, _)
\* forEach over the copy: callback(...args) for each element of it, in order
TriggerLoop(copy, k, lists, arg, log) ==
    IF k > Len(copy) THEN [lists |-> lists, log |-> log]
    ELSE TriggerLoop(copy, k + 1, CallbackRuns(copy[k], lists), arg,
                     Append(log, Ev("callback", "actionSubscriptions", copy[k], arg)))

RECURSIVE TriggerLiveLoop(_, _, _, _, _)
\* forEach over the array itself: the indices below its length at the start, each read
\* from the array when it is reached, absent ones skipped
TriggerLiveLoop(n, k, lists, arg, log) ==
    IF k > n THEN [lists |-> lists, log |-> log]
    ELSE IF k > Len(lists.plugin) THEN TriggerLiveLoop(n, k + 1, lists, arg, log)
    ELSE TriggerLiveLoop(n, k + 1, CallbackRuns(lists.plugin[k], lists), arg,
                         Append(log, Ev("callback", "actionSubscriptions", lists.plugin[k], arg)))

triggerSubscriptionsLive(lists, arg) ==
    TriggerLiveLoop(Len(lists.plugin), 1, lists, arg,
                    <<Ev("trigger", "actionSubscriptions", "-", arg)>>)

\* subscriptions.slice().forEach(callback => { callback(...args); }), with callbacks
\* that change subscriptions while it runs
triggerSubscriptionsReentrant(lists, arg) ==
    TriggerLoop(lists.plugin, 1, lists, arg, <<Ev("trigger", "actionSubscriptions", "-", arg)>>)

\* store.$onAction(callback) of store A, by a caller outside of any component
OnActionReentrant(callback) ==
    /\ Len(actionSubscriptions) < MaxSubs
    /\ actionSubscriptions' = Append(actionSubscriptions, callback)
    /\ nativeSubs' = [nativeSubs EXCEPT !["A"] = Append(@, callback)]
    /\ lastOp' = [op |-> "onAction"]
    /\ UNCHANGED <<piniaVars, state, bindVars, isDisposed, pending, handles, mounted>>

\* setStatus(v): the external action notifies the subscribers, which change the
\* subscriptions, and then runs its combiner
DispatchReentrant(v) ==
    LET round == triggerSubscriptionsReentrant(
                     [plugin |-> actionSubscriptions, native |-> nativeSubs["A"]],
                     [t |-> "context", store |-> "A", args |-> <<v>>])
        body == ActionBody("setStatus", <<v>>, state)
    IN  /\ ~isDisposed["A"]
        /\ Len(round.lists.plugin) <= MaxSubs + 1
        /\ state' = body.st
        /\ bindings' = Invalidate(bindings, body.st # state)
        /\ actionSubscriptions' = round.lists.plugin
        /\ nativeSubs' = [nativeSubs EXCEPT !["A"] = round.lists.native]
        /\ lastOp' = [op |-> "notify", action |-> "setStatus", args |-> <<v>>, pre |-> state,
                      subscriptions |-> actionSubscriptions,
                      log |-> round.log \o <<Ev("combiner", "-", "-", Undefined)>>,
                      out |-> [ok |-> body.ok, val |-> body.val]]
        /\ UNCHANGED <<piniaVars, getterRegistry, factoryRegistry, nextPull, refs, isDisposed,
                       pending, handles, mounted>>

(***************************************************************************)
(* Postponed definitions (pinia-utils.ts).                                 *)
(***************************************************************************)
\* the store used while no Pinia is active: it keeps no data, its $state is {}
MOCK_STORE == [id |-> "MOCK", state |-> Obj(<<>>)]

\* a function that does nothing and returns undefined
NOOP_FUNC(st) == Return(Undefined, st)

DefinesAlways(pinia, isDefined) == TRUE

\* if (pinia && !isDefined) { impl = store.defineAction(action); isDefined = true; ... }
Defines(pinia, isDefined) == pinia /\ ~isDefined

\* setActivePinia(pinia) and setActivePinia(undefined)
SetActivePinia(pinia) ==
    /\ activePinia' = pinia
    /\ lastOp' = [op |-> "setActivePinia"]
    /\ UNCHANGED <<state, bindVars, actionVars, postponedDefs>>

\* the definition after a call of its wrapper
Latch(w, defines) ==
    IF defines
    THEN [postponedDefs EXCEPT ![w] = [isDefined |-> TRUE, defines |-> @.defines + 1]]
    ELSE postponedDefs

\* (...args) => { ...; return impl.apply(this, args); }  or  impl.apply(MOCK_STORE, args):
\* impl is NOOP_FUNC until the definition is made, then the external action, an arrow
\* function that ignores the store it is applied to
PostponedAction(w, args) ==
    LET defines == Defines(activePinia, postponedDefs[w].isDefined)
        o == IF defines \/ postponedDefs[w].isDefined
             THEN ExternalAction(PostponedActions[w], args, state, actionSubscriptions, isDisposed)
             ELSE NOOP_FUNC(state)
    IN  /\ state' = o.st
        /\ postponedDefs' = Latch(w, defines)
        /\ bindings' = Invalidate(bindings, o.st # state)
        /\ lastOp' = [op |-> "postponed", kind |-> "action", via |-> "call", name |-> w,
                      args |-> args, pre |-> state, active |-> activePinia,
                      wasDefined |-> postponedDefs[w].isDefined,
                      out |-> [ok |-> o.ok, val |-> o.val]]
        /\ UNCHANGED <<getterRegistry, factoryRegistry, nextPull, refs, actionVars, activePinia>>

\* wrappedGetter(state): impl.apply(null, [state]), impl being NOOP_FUNC until defined.
\* S is the state the caller gives; the caller useGetter gives an immutable view of
\* wrappedGetter.store.$state, where the store property is
\*   get () { const pinia = getActivePinia(); return pinia ? useStore(pinia) : getMockStore(); }
\* and unwraps the result
PostponedGetter(w, via, S) ==
    LET defines == Defines(activePinia, postponedDefs[w].isDefined)
        mocked == via = "useGetter" /\ ~activePinia
        st == IF mocked THEN Put(state, MOCK_STORE.id, MOCK_STORE.state) ELSE state
        arg == IF via = "useGetter"
               THEN getImmutableState(IF mocked THEN MOCK_STORE.id ELSE "A")
               ELSE S
        r == IF defines \/ postponedDefs[w].isDefined
             THEN CallGetter(PostponedGetters[w], arg, st)
             ELSE NOOP_FUNC(st)
        o == IF via = "useGetter" /\ r.ok /\ checkImmutability(r.val)
             THEN [r EXCEPT !.val = PropGet(r.st, r.val, IMMUTABLE_STATE_PROXY_UNWRAP_KEY).val]
             ELSE r
    IN  /\ state' = [s \in DOMAIN state |-> o.st[s]]
        /\ postponedDefs' = Latch(w, defines)
        /\ bindings' = Invalidate(bindings, state' # state)
        /\ lastOp' = [op |-> "postponed", kind |-> "getter", via |-> via, name |-> w,
                      args |-> <<arg>>, pre |-> state, active |-> activePinia,
                      wasDefined |-> postponedDefs[w].isDefined,
                      out |-> [ok |-> o.ok, val |-> o.val]]
        /\ UNCHANGED <<getterRegistry, factoryRegistry, nextPull, refs, actionVars, activePinia>>

InitialState == [A |-> TreeA(Str("test"), Obj([a |-> Num(2)]), Num(1)), B |-> TreeB(Num(0))]

Init ==
    /\ state = InitialState
    /\ getterRegistry = <<>>
    /\ factoryRegistry = <<>>
    /\ nextPull = 1
    /\ bindings = <<>>
    /\ refs = InitialRefs
    /\ actionSubscriptions = <<>>
    /\ nativeSubs = [s \in Stores |-> <<>>]
    /\ isDisposed = [s \in Stores |-> FALSE]
    /\ pending = <<>>
    /\ handles = <<>>
    /\ mounted = TRUE
    /\ activePinia = TRUE
    /\ postponedDefs = InitialPostponed
    /\ lastOp = [op |-> "init"]

\* components that bind getters and read them, while actions are dispatched
NextBind ==
    \/ \E g \in BoundGetters : UseGetter(g, "none", <<>>)
    \/ \E f \in GetterFactories, args \in FactoryArgs : UseGetterFactory(f, args)
    \/ \E i \in DOMAIN bindings : Read(i)
    \/ \E v \in Names : Dispatch("setName", <<v>>)
    \/ \E v \in StatusValues : Dispatch("setStatus", <<v>>)

SpecBind == Init /\ [][NextBind]_vars

\* components that bind a getter with an action as its setter, and read and assign it
NextWrite ==
    \/ \E a \in SetterActions : UseGetter("getStatusDirect", a, <<>>)
    \/ \E i \in DOMAIN bindings : Read(i)
    \/ \E i \in DOMAIN bindings, v \in WrittenValues : Write(i, v)

SpecWrite == Init /\ [][NextWrite]_vars

\* a component that assigns through a binding of state.status with setStatus as its
\* setter and reads it, while the action is also dispatched directly
NextSlot ==
    \/ UseGetter("getStatusDirect", "setStatus", <<>>)
    \/ \E i \in DOMAIN bindings : Read(i)
    \/ \E i \in DOMAIN bindings, v \in {Num(3), Num(5)} : Write(i, v)
    \/ Dispatch("setStatus", <<Num(1)>>)

SpecSlot == Init /\ [][NextSlot]_vars

\* a component that assigns through bindings whose setter throws: an action that throws
\* by itself, and an action of a store that is disposed
NextThrow ==
    \/ \E a \in {"failStatus", "setStatus"} : UseGetter("getStatusDirect", a, <<>>)
    \/ \E i \in DOMAIN bindings, v \in {Num(3), Num(5)} : Write(i, v)
    \/ Dispose("A")

SpecThrow == Init /\ [][NextThrow]_vars

\* the asynchronous invocations that are in flight together
ConcurrentCalls ==
    {[action |-> "asyncSet", args |-> <<Num(3)>>], [action |-> "asyncSet", args |-> <<Num(5)>>],
     [action |-> "asyncFail", args |-> <<Num(3)>>]}

\* callers that dispatch asynchronous actions while others are in flight, which settle
\* in any order, and subscribers that register in between
NextConcurrent ==
    \/ \E callback \in Callbacks : OnAction("A", callback)
    \/ \E c \in ConcurrentCalls : DispatchWithin(c.action, c.args, MaxInFlight)
    \/ \E i \in DOMAIN pending : Settle(i)

SpecConcurrent == Init /\ [][NextConcurrent]_vars

\* subscribers that change the subscriptions from inside their callbacks
NextReentrant ==
    \/ \E callback \in ReentrantCallbacks : OnActionReentrant(callback)
    \/ \E v \in StatusValues \cup {Num(5)} : DispatchReentrant(v)

SpecReentrant == Init /\ [][NextReentrant]_vars

\* the calls of useGetterFactory in components: a factory and its argument list
FactoryCall(f, args) == [factory |-> f, args |-> args]
FactoryCalls ==
    {FactoryCall("createGetCode", args) :
        args \in {<<Num(1), Bool(TRUE), Str("x")>>, <<RefArg("r1")>>, <<RefArg("r2")>>,
                  <<RefArg("r3")>>,
                  <<Obj([k |-> Str("a")])>>, <<Arr(<<Str("a")>>)>>, <<Fun("handleSomething")>>}}
    \cup {FactoryCall("createMutCode", args) :
             args \in {<<Num(1), Bool(TRUE), Str("x")>>, <<Obj([k |-> Str("a")])>>}}

\* components that bind getter factories and read the bindings, while a ref changes
NextFactory ==
    \/ \E call \in FactoryCalls : UseGetterFactory(call.factory, call.args)
    \/ \E i \in DOMAIN bindings : Read(i)
    \/ \E v \in {Str("a"), Str("b")} : SetRef("r1", v)

SpecFactory == Init /\ [][NextFactory]_vars

\* calls of useGetterFactory whose argument lists differ and have the same string form
KeyCalls ==
    {FactoryCall("createGetData", args) :
        args \in {<<Bool(FALSE)>>, <<Str("false")>>, <<Null>>, <<Str("")>>, <<Bool(TRUE)>>}}
    \cup {FactoryCall("createGetCode", args) : args \in {<<RefArg("r2")>>, <<RefArg("r3")>>}}

\* components that bind one factory with different argument lists and read the bindings
NextKeys ==
    \/ \E call \in KeyCalls : UseGetterFactory(call.factory, call.args)
    \/ \E i \in DOMAIN bindings : Read(i)

SpecKeys == Init /\ [][NextKeys]_vars

\* data.codes = v and data.codes.a = v; on the codes node, codes.codes = v
AssignTargets == {[path |-> <<>>, key |-> "codes"], [path |-> <<"codes">>, key |-> "a"]}

\* components that read bindings and assign to what they read
NextOutside ==
    \/ \E g \in {"getData", "getCodes"} : UseGetter(g, "none", <<>>)
    \/ \E hasAccess \in BOOLEAN : UseGetterFactory("createGetData", <<Bool(hasAccess)>>)
    \/ \E i \in DOMAIN bindings : Read(i)
    \/ \E i \in DOMAIN bindings, target \in AssignTargets, v \in {Num(3), Null} :
          Assign(i, target.path, target.key, v)

SpecOutside == Init /\ [][NextOutside]_vars

\* the setters and the extra arguments given to useGetter after them
SetterBindings ==
    {[action |-> "addStatus", payload |-> <<Num(20), Str("Stone")>>],
     [action |-> "plainAdd", payload |-> <<Num(20)>>],
     [action |-> "setB", payload |-> <<Num(20)>>]}

\* components that bind a getter with a setter and extra arguments, and assign through it
NextSetter ==
    \/ \E sb \in SetterBindings : UseGetter("getStatusDirect", sb.action, sb.payload)
    \/ \E i \in DOMAIN bindings, v \in {Num(3), Num(4)} : Write(i, v)

SpecSetter == Init /\ [][NextSetter]_vars

\* code that holds an immutable view and reads, assigns, deletes and redefines through it
NextChannel ==
    \/ \E p \in Paths : ViewRead(p)
    \/ \E p \in Paths, key \in {"codes", "a"} : ViewWrite(p, key, Num(7))
    \/ \E p \in Paths, key \in {"codes", "a"} : ViewChange("delete", p, key, Undefined)
    \/ \E p \in Paths, key \in {"codes", "a"} : ViewChange("defineProperty", p, key, Num(7))

SpecChannel == Init /\ [][NextChannel]_vars

\* components that bind direct getters defined without defineGetter, and getters whose
\* combiner writes to the store it is applied to
NextPure ==
    \/ \E g \in {"getRecord", "getStatus", "getViaThis", "getMutStatus", "getSum"} :
          UseGetter(g, "none", <<>>)
    \/ UseGetterFactory("createViaThis", <<Str("a")>>)
    \/ \E i \in DOMAIN bindings : Read(i)
    \/ \E v \in StatusValues : Dispatch("setStatus", <<v>>)

SpecPure == Init /\ [][NextPure]_vars

\* modules that make postponed definitions and call them before and after Pinia is active
InitPostponed ==
    /\ state = InitialState
    /\ getterRegistry = <<>>
    /\ factoryRegistry = <<>>
    /\ nextPull = 1
    /\ bindings = <<>>
    /\ refs = InitialRefs
    /\ actionSubscriptions = <<>>
    /\ nativeSubs = [s \in Stores |-> <<>>]
    /\ isDisposed = [s \in Stores |-> FALSE]
    /\ pending = <<>>
    /\ handles = <<>>
    /\ mounted = TRUE
    /\ activePinia = FALSE
    /\ postponedDefs = InitialPostponed
    /\ lastOp = [op |-> "init"]

NextPostponed ==
    \/ \E pinia \in BOOLEAN : SetActivePinia(pinia)
    \/ \E v \in Names : PostponedAction("postponedSetName", <<v>>)
    \/ PostponedAction("postponedFail", <<Num(3)>>)
    \/ \E w \in DOMAIN PostponedGetters, S \in {Ref("A", <<>>), getImmutableState("A")} :
          PostponedGetter(w, "call", S)
    \/ \E w \in DOMAIN PostponedGetters : PostponedGetter(w, "useGetter", Undefined)

SpecPostponed == InitPostponed /\ [][NextPostponed]_vars

\* stores whose actions are subscribed to, dispatched, settled and which are disposed
NextAction ==
    \/ \E s \in Stores, callback \in Callbacks : OnAction(s, callback)
    \/ \E s \in Stores : Dispose(s)
    \/ \E a \in {"setStatus", "failStatus", "asyncSet", "asyncFail"} : Dispatch(a, <<Num(3)>>)
    \/ \E i \in DOMAIN pending : Settle(i)

SpecAction == Init /\ [][NextAction]_vars


\* an external action whose combiner binds getter g while it runs: useGetter(g) called
\* re-entrantly, between the before-notification and the return of the action
BindInAction(a, args, g) ==
    LET inv == ExternalAction(a, args, state, actionSubscriptions, isDisposed)
        registry == RegisterPull(getterRegistry, g, nextPull)
        ran == \E k \in DOMAIN inv.log : inv.log[k].e = "combiner"
    IN  /\ ~ActionDefs[a].async
        /\ ran
        /\ Len(bindings) < MaxBindings
        /\ state' = inv.st
        /\ getterRegistry' = registry
        /\ nextPull' = IF registry = getterRegistry THEN nextPull ELSE nextPull + 1
        /\ bindings' = Append(Invalidate(bindings, inv.st # state),
                              [Computed(g, registry[g], "none", <<>>) EXCEPT !.dirty = TRUE])
        /\ lastOp' = [op |-> "bindInAction", action |-> a, getter |-> g, pre |-> state,
                      out |-> [ok |-> inv.ok, val |-> inv.val]]
        /\ UNCHANGED <<piniaVars, factoryRegistry, refs, actionVars>>

\* the getters and factory calls whose pull functions the registries keep
RegistryGetters == {"getSum", "getData"}
RegistryCalls ==
    {FactoryCall("createGetCode", args) :
        args \in {<<Num(1), Bool(TRUE), Str("x")>>, <<RefArg("r2")>>, <<Obj([k |-> Str("a")])>>}}

\* components that bind getters and factories, also from inside an action, while the
\* store is subscribed to, dispatched on and disposed
NextRegistry ==
    \/ \E g \in RegistryGetters : UseGetter(g, "none", <<>>)
    \/ \E c \in RegistryCalls : UseGetterFactory(c.factory, c.args)
    \/ \E i \in DOMAIN bindings : Read(i)
    \/ Dispatch("setStatus", <<Num(3)>>)
    \/ \E g \in RegistryGetters : BindInAction("setStatus", <<Num(3)>>, g)
    \/ OnAction("A", "spy")
    \/ Dispose("A")

SpecRegistry == Init /\ [][NextRegistry]_vars

\* callers that keep the function $onAction returns, a component that unmounts, and
\* native and external actions of two stores
NextSubs ==
    \/ \E s \in Stores, callback \in Callbacks, detached \in BOOLEAN, inComponent \in BOOLEAN :
          Subscribe(s, callback, detached, inComponent)
    \/ \E i \in DOMAIN handles : Unsubscribe(i)
    \/ Unmount
    \/ \E s \in Stores : Dispose(s)
    \/ \E s \in Stores : NativeAction(s, Num(3))
    \/ \E a \in {"setStatus", "setB"} : Dispatch(a, <<Num(3)>>)

SpecSubs == Init /\ [][NextSubs]_vars

(***************************************************************************)
(* Properties of the pure parts (SpecGetter).                              *)
(***************************************************************************)
RECURSIVE ConcatAll(_)
ConcatAll(seqs) == IF seqs = <<>> THEN <<>> ELSE Head(seqs) \o ConcatAll(Tail(seqs))

\* C1: a getter G = defineGetter(d1, ..., dn, C) called with state S calls d1, ..., dn
\* with that same S in declared order and then returns C(d1(S), ..., dn(S)), the results
\* passed positionally; with n = 0 it returns C(S).  Dependencies that are composed
\* getters themselves are covered (getSum over getStatus and getCodeA over getCodes).
\* Stated for calls whose dependencies return without writing to the state.
C1_Composition ==
    (lastOp.op = "getter" /\ GetterDefs[lastOp.getter].defined) =>
        LET d == GetterDefs[lastOp.getter]
            S == lastOp.arg
            n == Len(d.deps)
            dep == [i \in 1..n |-> CallGetter(d.deps[i], S, lastOp.pre)]
            combinerArgs == IF n = 0 THEN <<S>> ELSE [i \in 1..n |-> dep[i].val]
            c == Fn(d.fn, d.cap, d.store, combinerArgs, lastOp.pre)
        IN  (\A i \in 1..n : dep[i].ok /\ dep[i].st = lastOp.pre) =>
                /\ lastOp.out.ok = c.ok
                /\ lastOp.out.val = c.val
                /\ lastOp.out.tr = <<Event(lastOp.getter, <<S>>)>>
                                   \o ConcatAll([i \in 1..n |-> dep[i].tr])
                                   \o <<Event(d.fn, combinerArgs)>>

\* C1 witness: getSum({data: {codes: {a: 2}}, status: 1}) returned 3
C1_Witness ==
    /\ lastOp.op = "getter"
    /\ lastOp.getter = "getSum"
    /\ lastOp.out.ok
    /\ lastOp.out.val = Num(3)

\* C3: reading any path through an immutable view leaves the raw state as it was, and
\* every assignment through a view, at any depth, throws the guard error and leaves
\* the raw state as it was.
C3_ImmutableView ==
    /\ lastOp.op = "viewRead" => state = lastOp.pre
    /\ lastOp.op = "viewWrite" =>
          /\ ~lastOp.out.ok
          /\ lastOp.out.val = GuardError
          /\ state = lastOp.pre

\* C3 witness: view.data.codes.a = v was attempted on a view of the nested codes node
C3_Witness ==
    /\ lastOp.op = "viewWrite"
    /\ lastOp.path = <<"data", "codes">>
    /\ lastOp.key = "a"
    /\ lastOp.target = View("A", <<"data", "codes">>)

(***************************************************************************)
(* Properties of the bindings (SpecBind, SpecWrite).                       *)
(***************************************************************************)
\* C2: reading a binding of a getter whose combiner or dependency assigns a property on
\* its state argument throws ReferenceError "Mutations in getters are not allowed."
\* instead of returning a value, and the store state after the failed read is the state
\* before it.
C2_MutationInGetterFails ==
    (lastOp.op = "read" /\ lastOp.getter \in MutatingGetters) =>
        /\ ~lastOp.out.ok
        /\ lastOp.out.val = GuardError
        /\ state = lastOp.pre

\* C2 witness: a binding of getMutCodes (data => { data.codes = null; ... }) was read
C2_Witness ==
    /\ lastOp.op = "read"
    /\ lastOp.getter = "getMutCodes"
    /\ ~lastOp.out.ok
    /\ lastOp.out.val = GuardError

\* a binding made by useGetterFactory of a factory whose getter assigns was read
C2_FactoryWitness ==
    /\ lastOp.op = "read"
    /\ bindings[lastOp.binding].get.factory = "createMutCode"
    /\ lastOp.getter = "getMutA"
    /\ ~lastOp.out.ok
    /\ lastOp.out.val = GuardError

\* a getter's result with the guarded views replaced by the raw nodes they wrap
Unguarded(v) == IF v.t = "view" THEN Ref(v.store, v.path) ELSE v

\* C4: after actions changed the store state, a read of a binding created by
\* useGetter(g) returns g applied to the store's current state.
C4_ReadIsCurrent ==
    (lastOp.op = "read" /\ lastOp.reevaluated) =>
        LET r == CallGetter(lastOp.getter, getImmutableState("A"), state)
        IN  /\ lastOp.out.ok = r.ok
            /\ lastOp.out.val = Unguarded(r.val)

\* C4, for the getters that return a primitive or a node of the state
C4_ReadIsCurrentOfStateValues ==
    (lastOp.op = "read" /\ lastOp.reevaluated /\ lastOp.getter # "getFresh") =>
        LET r == CallGetter(lastOp.getter, getImmutableState("A"), state)
        IN  /\ lastOp.out.ok = r.ok
            /\ lastOp.out.val = Unguarded(r.val)

\* C5: binding the same getter again reuses the pull function stored by the first
\* useGetter call: every binding of a getter holds the registry's pull function for it,
\* as many pull functions were created as distinct getters were bound, and the getter
\* is evaluated by reads only (at most once per read), never by a bind.
C5_PullFunctionCreatedOnce ==
    LET bound == {i \in DOMAIN bindings : bindings[i].get.factory = "none"}
    IN  /\ \A i \in bound :
              /\ bindings[i].getter \in DOMAIN getterRegistry
              /\ bindings[i].get = getterRegistry[bindings[i].getter]
        /\ \A i, j \in bound :
              bindings[i].getter = bindings[j].getter => bindings[i].get.id = bindings[j].get.id
        /\ DOMAIN getterRegistry = {bindings[i].getter : i \in bound}
        /\ \A g, h \in DOMAIN getterRegistry :
              g # h => getterRegistry[g].id # getterRegistry[h].id
        /\ lastOp.op = "bind" => lastOp.evals = 0
        /\ lastOp.op = "read" => lastOp.evals <= 1

\* C5 witness: one getter bound twice, the second binding read
C5_Witness ==
    /\ Len(bindings) = 2
    /\ bindings[1].get.factory = "none"
    /\ bindings[2].get.factory = "none"
    /\ bindings[1].getter = bindings[2].getter
    /\ lastOp.op = "read"
    /\ lastOp.binding = 2
    /\ lastOp.evals = 1

\* C6: for any value v and any N >= 1, N assignments of v in a row through one writable
\* binding invoke the backing action exactly once.
C6_WriteCoalescing ==
    \A i \in DOMAIN bindings : bindings[i].runLen >= 1 => bindings[i].runCalls = 1

(***************************************************************************)
(* External actions and their subscribers.                                 *)
(***************************************************************************)
Occurrences(seq, x) == Cardinality({i \in DOMAIN seq : seq[i] = x})

\* positions of the log where callback of the given list was called
CallsOf(log, list, callback) ==
    {k \in DOMAIN log : log[k].e = "callback" /\ log[k].list = list /\ log[k].cb = callback}

\* positions of the log where one of the two hook lists was triggered
HookTriggers(log) ==
    {k \in DOMAIN log : log[k].e = "trigger"
                        /\ log[k].list \in {"afterCallbackList", "onErrorCallbackList"}}

CombinerAt(log) == {k \in DOMAIN log : log[k].e = "combiner"}

\* the notifications and hook calls of one list, as a log
Notified(list, callbacks, arg) ==
    <<Ev("trigger", list, "-", arg)>>
    \o [i \in 1..Len(callbacks) |-> Ev("callback", list, callbacks[i], arg)]

HooksOf(subscriptions, kind) ==
    SelectSeq(subscriptions, LAMBDA cb : IF kind = "after" THEN CallbackDefs[cb].after
                                         ELSE CallbackDefs[cb].onError)

\* what the combiner of the last invocation did: returned a value, threw, or returned
\* a promise that fulfils or rejects
CombinerOutcome(op) ==
    LET body == ActionBody(op.action, op.args, op.pre)
        settled == ActionSettle(op.action, op.args, op.pre)
    IN  IF op.op = "settle" \/ (body.ok /\ body.val = Promise)
        THEN [kind |-> "promise", ok |-> settled.ok, val |-> settled.val]
        ELSE [kind |-> "sync", ok |-> body.ok, val |-> body.val]

ContextOf(op) == [t |-> "context", store |-> ActionDefs[op.action].store, args |-> op.args]

\* C7: an invocation of an external action of a store that is not disposed notifies
\* each subscriber currently registered on that store exactly once, before the
\* combiner runs, and triggers exactly one of the two hook lists: at the return or
\* throw of a synchronous combiner, at the settlement of an asynchronous one.
C7_NotifiedOnceSettledOnce ==
    /\ (lastOp.op = "call" /\ ~lastOp.disposed) =>
          /\ \A cb \in Callbacks :
                /\ Cardinality(CallsOf(lastOp.log, "actionSubscriptions", cb))
                      = Occurrences(lastOp.registered, cb)
                /\ \A k \in CallsOf(lastOp.log, "actionSubscriptions", cb) :
                      \E c \in CombinerAt(lastOp.log) : k < c
          /\ Cardinality(HookTriggers(lastOp.log))
                = IF lastOp.out.ok /\ lastOp.out.val = Promise THEN 0 ELSE 1
    /\ lastOp.op = "settle" => Cardinality(HookTriggers(lastOp.log)) = 1

\* The same statement about the subscribers of the list the invocation reads, which
\* all stores share: this one holds.
C7_OfSharedList ==
    /\ (lastOp.op = "call" /\ ~lastOp.disposed) =>
          /\ \A cb \in Callbacks :
                /\ Cardinality(CallsOf(lastOp.log, "actionSubscriptions", cb))
                      = Occurrences(lastOp.subscriptions, cb)
                /\ \A k \in CallsOf(lastOp.log, "actionSubscriptions", cb) :
                      \E c \in CombinerAt(lastOp.log) : k < c
          /\ Cardinality(HookTriggers(lastOp.log))
                = IF lastOp.out.ok /\ lastOp.out.val = Promise THEN 0 ELSE 1
    /\ lastOp.op = "settle" => Cardinality(HookTriggers(lastOp.log)) = 1

\* C8: when the combiner throws synchronously, the subscribers are notified, then the
\* combiner runs, then every onError hook is called in order with the thrown error,
\* then the same error is thrown to the caller; no after hook is called.
C8_SyncThrow ==
    (lastOp.op = "call" /\ ~lastOp.disposed
        /\ CombinerOutcome(lastOp).kind = "sync"
        /\ ~CombinerOutcome(lastOp).ok) =>
       LET error == CombinerOutcome(lastOp).val
       IN  /\ lastOp.log
                = Notified("actionSubscriptions", lastOp.subscriptions, ContextOf(lastOp))
                  \o <<Ev("combiner", "-", "-", Undefined)>>
                  \o Notified("onErrorCallbackList", HooksOf(lastOp.subscriptions, "onError"), error)
                  \o <<Ev("throw", "-", "-", error)>>
           /\ lastOp.out = [ok |-> FALSE, val |-> error]
           /\ \A k \in DOMAIN lastOp.log : lastOp.log[k].list # "afterCallbackList"

C8_Witness ==
    /\ lastOp.op = "call"
    /\ lastOp.action = "failStatus"
    /\ ~lastOp.disposed
    /\ Len(HooksOf(lastOp.subscriptions, "onError")) = 2
    /\ lastOp.out = [ok |-> FALSE, val |-> AppError]

\* the value of the last after hook that returned one, or the combiner's result
Overridden(hooks, result) ==
    LET returning == SelectSeq(hooks, LAMBDA cb : CallbackDefs[cb].ret # Undefined)
    IN  IF returning = <<>> THEN result
        ELSE CallbackDefs[returning[Len(returning)]].ret

\* C9: when the combiner returns synchronously, the after hooks are called with its
\* result, and a value an after hook returns replaces the result the caller gets.
C9_AfterHooksOverride ==
    (lastOp.op = "call" /\ ~lastOp.disposed
        /\ CombinerOutcome(lastOp).kind = "sync"
        /\ CombinerOutcome(lastOp).ok) =>
       LET result == CombinerOutcome(lastOp).val
           hooks == HooksOf(lastOp.subscriptions, "after")
       IN  /\ \A cb \in Callbacks :
                 /\ Cardinality(CallsOf(lastOp.log, "afterCallbackList", cb)) = Occurrences(hooks, cb)
                 /\ \A k \in CallsOf(lastOp.log, "afterCallbackList", cb) : lastOp.log[k].arg = result
           /\ lastOp.out = [ok |-> TRUE, val |-> Overridden(hooks, result)]

\* The after hooks are called with the result and the caller gets the combiner's
\* result, whatever the hooks return: this one holds.
C9_AfterHooksObserve ==
    (lastOp.op = "call" /\ ~lastOp.disposed
        /\ CombinerOutcome(lastOp).kind = "sync"
        /\ CombinerOutcome(lastOp).ok) =>
       LET result == CombinerOutcome(lastOp).val
           hooks == HooksOf(lastOp.subscriptions, "after")
       IN  /\ \A cb \in Callbacks :
                 /\ Cardinality(CallsOf(lastOp.log, "afterCallbackList", cb)) = Occurrences(hooks, cb)
                 /\ \A k \in CallsOf(lastOp.log, "afterCallbackList", cb) : lastOp.log[k].arg = result
           /\ lastOp.out = [ok |-> TRUE, val |-> result]

\* C10: an action whose combiner returns a promise returns a pending result and calls
\* no hook yet; when the promise fulfils, the after hooks registered during the
\* invocation are called with the value and then the result resolves to it; when it
\* rejects, the onError hooks are called with the reason and then the result rejects
\* with the same reason.
C10_AsyncSettlement ==
    /\ (lastOp.op = "call" /\ ~lastOp.disposed
          /\ CombinerOutcome(lastOp).kind = "promise") =>
          /\ lastOp.out = [ok |-> TRUE, val |-> Promise]
          /\ lastOp.log
                = Notified("actionSubscriptions", lastOp.subscriptions, ContextOf(lastOp))
                  \o <<Ev("combiner", "-", "-", Undefined)>>
          /\ \E i \in DOMAIN pending :
                /\ pending[i].action = lastOp.action
                /\ pending[i].afterList = HooksOf(lastOp.subscriptions, "after")
                /\ pending[i].onErrorList = HooksOf(lastOp.subscriptions, "onError")
    /\ lastOp.op = "settle" =>
          LET settled == CombinerOutcome(lastOp)
          IN  IF settled.ok
              THEN /\ lastOp.log = Notified("afterCallbackList", lastOp.afterList, settled.val)
                                   \o <<Ev("resolve", "-", "-", settled.val)>>
                   /\ lastOp.out = [ok |-> TRUE, val |-> settled.val]
              ELSE /\ lastOp.log = Notified("onErrorCallbackList", lastOp.onErrorList, settled.val)
                                   \o <<Ev("reject", "-", "-", settled.val)>>
                   /\ lastOp.out = [ok |-> FALSE, val |-> settled.val]

C10_Witness ==
    /\ lastOp.op = "settle"
    /\ lastOp.action = "asyncFail"
    /\ Len(lastOp.onErrorList) = 2
    /\ lastOp.out = [ok |-> FALSE, val |-> Str("Error!")]

\* C11: once $dispose of a store has been called, a call of an external action of that
\* store throws ReferenceError "Failed to dispatch action on disposed store." at once:
\* the combiner does not run, the state is unchanged, no subscriber or hook is
\* called and no invocation is left pending.
C11_DisposedActionFails ==
    (lastOp.op = "call" /\ lastOp.disposed) =>
        /\ lastOp.out = [ok |-> FALSE, val |-> DisposedError]
        /\ state = lastOp.pre
        /\ lastOp.log = <<Ev("throw", "-", "-", DisposedError)>>
        /\ ~lastOp.queued

C11_Witness ==
    /\ lastOp.op = "call"
    /\ lastOp.disposed
    /\ lastOp.action = "asyncSet"
    /\ Len(lastOp.subscriptions) = 2
    /\ lastOp.out = [ok |-> FALSE, val |-> DisposedError]

(***************************************************************************)
(* Registrations of $onAction and the functions that remove them.          *)
(***************************************************************************)
\* the functions $onAction returned for callback cb
HandlesOf(hs, cb) == {i \in DOMAIN hs : hs[i].callback = cb}

\* a registration nothing has ended: its function has not run and the store it was
\* made on has not been disposed since
Standing(h) == ~h.removed /\ h.nativeCurrent

\* C12: a callback that was registered with $onAction of store A only is not notified
\* of an external action of store B.
C12_SubscriptionsScopedToStore ==
    (lastOp.op = "call" /\ ~lastOp.disposed) =>
        \A cb \in Callbacks :
            (\A i \in HandlesOf(handles, cb) : handles[i].store # ActionDefs[lastOp.action].store)
                => CallsOf(lastOp.log, "actionSubscriptions", cb) = {}

\* The same for native actions, whose subscribers Pinia keeps per store: this one holds.
C12_NativeScopedToStore ==
    (lastOp.op = "native" /\ ~lastOp.disposed) =>
        \A cb \in Callbacks :
            (\A i \in HandlesOf(handles, cb) : handles[i].store # lastOp.store)
                => CallsOf(lastOp.log, "nativeSubs", cb) = {}

\* C13: the first call of the function $onAction returned removes one registration of
\* its callback from the plugin's list and from the store's own list (where the
\* registration is still in them); any later call of the same function leaves both
\* lists as they are, also when the callback is registered more than once.
C13_UnsubscribeOnce ==
    lastOp.op = "unsubscribe" =>
        LET h == handles[lastOp.handle]
            plugin == Occurrences(lastOp.subscriptions, h.callback)
            native == Occurrences(lastOp.registered[h.store], h.callback)
        IN  IF lastOp.first
            THEN /\ Occurrences(actionSubscriptions, h.callback)
                        = IF h.current /\ plugin > 0 THEN plugin - 1 ELSE plugin
                 /\ Occurrences(nativeSubs[h.store], h.callback)
                        = IF h.nativeCurrent /\ native > 0 THEN native - 1 ELSE native
            ELSE /\ actionSubscriptions = lastOp.subscriptions
                 /\ nativeSubs = lastOp.registered

\* The first call alone: this one holds.
C13_FirstCallRemovesOne ==
    (lastOp.op = "unsubscribe" /\ lastOp.first) =>
        LET h == handles[lastOp.handle]
            plugin == Occurrences(lastOp.subscriptions, h.callback)
            native == Occurrences(lastOp.registered[h.store], h.callback)
        IN  /\ Occurrences(actionSubscriptions, h.callback)
                  = IF h.current /\ plugin > 0 THEN plugin - 1 ELSE plugin
            /\ Occurrences(nativeSubs[h.store], h.callback)
                  = IF h.nativeCurrent /\ native > 0 THEN native - 1 ELSE native

\* the registrations of cb in the plugin's list / in the own list of store s that
\* nothing has ended, by the functions that remove them
StandingIn(hs, cb) == {i \in HandlesOf(hs, cb) : ~hs[i].removed /\ hs[i].current}
StandingOn(hs, cb, s) ==
    {i \in HandlesOf(hs, cb) : ~hs[i].removed /\ hs[i].nativeCurrent /\ hs[i].store = s}

\* C14: when the component unmounts, a list that held the standing registrations
\* holds afterwards exactly those not made in the component's setup or marked
\* detached: the component's registrations are removed and every other one stays.
C14_UnmountRemovesScoped ==
    lastOp.op = "unmount" =>
        \A cb \in Callbacks :
            /\ Occurrences(lastOp.subscriptions, cb) = Cardinality(StandingIn(lastOp.was, cb))
                  => Occurrences(actionSubscriptions, cb)
                        = Cardinality({i \in StandingIn(lastOp.was, cb) : ~lastOp.was[i].scoped})
            /\ \A s \in Stores :
                  Occurrences(lastOp.registered[s], cb) = Cardinality(StandingOn(lastOp.was, cb, s))
                     => Occurrences(nativeSubs[s], cb)
                           = Cardinality({i \in StandingOn(lastOp.was, cb, s) : ~lastOp.was[i].scoped})

\* The same when the component has not itself called the functions $onAction returned
\* to it: this one holds.
C14_UnmountOfUncalled ==
    (lastOp.op = "unmount"
        /\ \A i \in DOMAIN lastOp.was : lastOp.was[i].scoped => ~lastOp.was[i].removed) =>
        \A cb \in Callbacks :
            /\ Occurrences(lastOp.subscriptions, cb) = Cardinality(StandingIn(lastOp.was, cb))
                  => Occurrences(actionSubscriptions, cb)
                        = Cardinality({i \in StandingIn(lastOp.was, cb) : ~lastOp.was[i].scoped})
            /\ \A s \in Stores :
                  Occurrences(lastOp.registered[s], cb) = Cardinality(StandingOn(lastOp.was, cb, s))
                     => Occurrences(nativeSubs[s], cb)
                           = Cardinality({i \in StandingOn(lastOp.was, cb, s) : ~lastOp.was[i].scoped})

\* C15: a callback registered exactly once, on store s, whose registration stands, is
\* called exactly once by every native action of s and exactly once by every external
\* action of s.
C15_NotifiedOfNativeAndExternal ==
    /\ (lastOp.op = "native" /\ ~lastOp.disposed) =>
          \A cb \in Callbacks :
             (/\ Cardinality(HandlesOf(handles, cb)) = 1
              /\ \A i \in HandlesOf(handles, cb) : handles[i].store = lastOp.store /\ Standing(handles[i]))
                => Cardinality(CallsOf(lastOp.log, "nativeSubs", cb)) = 1
    /\ (lastOp.op = "call" /\ ~lastOp.disposed) =>
          \A cb \in Callbacks :
             (/\ Cardinality(HandlesOf(handles, cb)) = 1
              /\ \A i \in HandlesOf(handles, cb) :
                    handles[i].store = ActionDefs[lastOp.action].store /\ Standing(handles[i]))
                => Cardinality(CallsOf(lastOp.log, "actionSubscriptions", cb)) = 1

\* The native half, and the external half while no store has been disposed since the
\* registration: this one holds.
C15_WhileNothingDisposed ==
    /\ (lastOp.op = "native" /\ ~lastOp.disposed) =>
          \A cb \in Callbacks :
             (/\ Cardinality(HandlesOf(handles, cb)) = 1
              /\ \A i \in HandlesOf(handles, cb) : handles[i].store = lastOp.store /\ Standing(handles[i]))
                => Cardinality(CallsOf(lastOp.log, "nativeSubs", cb)) = 1
    /\ (lastOp.op = "call" /\ ~lastOp.disposed) =>
          \A cb \in Callbacks :
             (/\ Cardinality(HandlesOf(handles, cb)) = 1
              /\ \A i \in HandlesOf(handles, cb) :
                    /\ handles[i].store = ActionDefs[lastOp.action].store
                    /\ Standing(handles[i])
                    /\ handles[i].current)
                => Cardinality(CallsOf(lastOp.log, "actionSubscriptions", cb)) = 1


IsPrimitive(v) == v.t \in {"number", "string", "boolean", "undefined", "null", "NaN"}

\* the bindings made before the last one
Earlier == 1 .. (Len(bindings) - 1)

\* C16: a useGetterFactory call with a list of primitive arguments, made after a call with the
\* same factory and the same list, returns the pull function the earlier call stored, and
\* leaves the factory registry as it was.
C16_PrimitiveArgsCacheHit ==
    (lastOp.op = "bindFactory" /\ \A i \in DOMAIN lastOp.args : IsPrimitive(lastOp.args[i])) =>
        \A j \in Earlier :
           (bindings[j].get.factory = lastOp.factory /\ bindings[j].get.args = lastOp.args) =>
               /\ lastOp.get = bindings[j].get
               /\ bindings[Len(bindings)].get = bindings[j].get
               /\ factoryRegistry = lastOp.registry

C16_Witness ==
    /\ lastOp.op = "bindFactory"
    /\ lastOp.args = <<Num(1), Bool(TRUE), Str("x")>>
    /\ Len(bindings) = 2
    /\ bindings[1].get.args = lastOp.args
    /\ bindings[1].get = bindings[2].get
    /\ factoryRegistry = lastOp.registry

\* C17: a useGetterFactory call whose arguments are primitives or refs of primitives, one of
\* them a ref, leaves its pull function in the factory's registry under the key built from
\* the values the refs hold.
C17_RefOfPrimitiveMemoized ==
    (/\ lastOp.op = "bindFactory"
     /\ \A i \in DOMAIN lastOp.args : IsPrimitive(unref(lastOp.args[i]))
     /\ \E i \in DOMAIN lastOp.args : isRef(lastOp.args[i])) =>
        LET key == ArrayToString([i \in DOMAIN lastOp.args |-> unref(lastOp.args[i])])
        IN  /\ lastOp.factory \in DOMAIN factoryRegistry
            /\ key \in DOMAIN factoryRegistry[lastOp.factory]
            /\ factoryRegistry[lastOp.factory][key] = lastOp.get

\* the same claim for refs that hold objects, which the code does memoize
C17_RefOfObjectStored ==
    (/\ lastOp.op = "bindFactory"
     /\ \A i \in DOMAIN lastOp.args : isRef(lastOp.args[i]) /\ ~IsPrimitive(unref(lastOp.args[i]))) =>
        /\ lastOp.factory \in DOMAIN factoryRegistry
        /\ "[object Object]" \in DOMAIN factoryRegistry[lastOp.factory]

\* C18: a useGetterFactory call with a plain object, an array or a function among its
\* arguments builds a pull function no earlier binding has, and stores no pull function:
\* the registry gains at most the empty map of a factory seen for the first time.
C18_ObjectArgsNeverMemoized ==
    (/\ lastOp.op = "bindFactory"
     /\ \E i \in DOMAIN lastOp.args : lastOp.args[i].t \in {"object", "array", "function"}) =>
        /\ lastOp.get.id >= lastOp.nextPull
        /\ bindings[Len(bindings)].get = lastOp.get
        /\ \A j \in Earlier : bindings[j].get # lastOp.get
        /\ \A f \in DOMAIN factoryRegistry :
              /\ \A key \in DOMAIN factoryRegistry[f] : factoryRegistry[f][key] # lastOp.get
              /\ factoryRegistry[f] = IF f \in DOMAIN lastOp.registry THEN lastOp.registry[f] ELSE <<>>

C18_Witness ==
    /\ lastOp.op = "bindFactory"
    /\ lastOp.args = <<Obj([k |-> Str("a")])>>
    /\ Len(bindings) = 2
    /\ bindings[1].get.factory = lastOp.factory
    /\ bindings[1].get.args = lastOp.args
    /\ bindings[1].get # bindings[2].get
    /\ factoryRegistry = lastOp.registry


\* C19: when the value read from a binding is a node of the state, it is the raw node and
\* not a guarded view; an assignment to a property under it outside the getter succeeds and
\* sets that property in the store state, and the next read of the binding returns the same
\* node, where the property has the assigned value.
C19_ReadValueIsRawNode ==
    /\ (lastOp.op = "assign" /\ lastOp.held.t \in {"ref", "view"}) =>
          /\ lastOp.held.t = "ref"
          /\ lastOp.out.ok
          /\ state = [lastOp.pre EXCEPT ![lastOp.held.store] =
                         SetAt(@, lastOp.held.path \o lastOp.path, lastOp.key, lastOp.value)]
    /\ (/\ lastOp.op = "read"
        /\ lastOp.follows.op = "assign"
        /\ lastOp.follows.binding = lastOp.binding
        /\ lastOp.follows.held.t \in {"ref", "view"}) =>
          /\ lastOp.out.ok
          /\ lastOp.out.val = lastOp.follows.held
          /\ state = lastOp.pre
          /\ ReadPath(state, lastOp.out.val, Append(lastOp.follows.path, lastOp.follows.key)).val
                = lastOp.follows.value

C19_Witness ==
    /\ lastOp.op = "read"
    /\ lastOp.follows.op = "assign"
    /\ lastOp.follows.binding = lastOp.binding
    /\ bindings[lastOp.binding].get.factory = "createGetData"
    /\ lastOp.follows.path = <<"codes">> /\ lastOp.follows.key = "a"
    /\ lastOp.follows.value = Num(3)
    /\ lastOp.pre["A"] = TreeA(Str("test"), Obj([a |-> Num(3)]), Num(1))
    /\ lastOp.out.val = Ref("A", <<"data">>)

C19_WitnessOfUseGetter ==
    /\ lastOp.op = "read"
    /\ lastOp.follows.op = "assign"
    /\ lastOp.follows.binding = lastOp.binding
    /\ bindings[lastOp.binding].get.factory = "none"
    /\ lastOp.getter = "getData"
    /\ lastOp.follows.path = <<"codes">> /\ lastOp.follows.key = "a"
    /\ lastOp.follows.value = Num(3)
    /\ lastOp.out.val = Ref("A", <<"data">>)


\* C20: when an assignment of v through a binding made with extra arguments e1..ek calls the
\* action, the action is called with (v, e1, ..., ek) and with the getter's store as this,
\* whatever was assigned before; an external action passes these arguments to its
\* subscribers and combiner, and a plain function writes to the getter's store.
C20_SetterArguments ==
    (lastOp.op = "write" /\ lastOp.called) =>
        LET b == bindings[lastOp.binding]
            store == GetterDefs[b.getter].store
            args == <<lastOp.value>> \o b.given
        IN  /\ lastOp.call.args = args
            /\ lastOp.call.this = store
            /\ b.payload = b.given
            /\ b.action \in ActionNames =>
                  /\ lastOp.log[1].arg.args = args
                  /\ state = ActionBody(b.action, args, lastOp.pre).st
            /\ b.action \in SetterFunctions =>
                  state = [lastOp.pre EXCEPT ![store] =
                              SetAt(@, <<>>, "status", Plus(lastOp.value, b.given[1]))]

C20_Witness ==
    /\ lastOp.op = "write" /\ lastOp.called
    /\ lastOp.value = Num(4)
    /\ bindings[lastOp.binding].action = "addStatus"
    /\ bindings[lastOp.binding].given = <<Num(20), Str("Stone")>>
    /\ lastOp.pre["A"].f.status = Num(23)
    /\ lastOp.call.args = <<Num(4), Num(20), Str("Stone")>>
    /\ state["A"].f.status = Num(24)

C20_WitnessOfFunction ==
    /\ lastOp.op = "write" /\ lastOp.called
    /\ lastOp.value = Num(4)
    /\ bindings[lastOp.binding].action = "plainAdd"
    /\ lastOp.pre["A"].f.status = Num(23)
    /\ lastOp.call = [this |-> "A", args |-> <<Num(4), Num(20)>>]
    /\ state["A"].f.status = Num(24)


(***************************************************************************)
(* Postponed definitions.                                                  *)
(***************************************************************************)
\* a call of a postponed definition that did nothing: undefined returned, no state changed
Disabled == lastOp.out = [ok |-> TRUE, val |-> Undefined] /\ state = lastOp.pre

\* C21 as stated: while no Pinia is active, every call of a postponed getter returns
\* undefined and every call of a postponed action returns without running its body.
C21_DisabledWhileInactive ==
    (lastOp.op = "postponed" /\ ~lastOp.active) => Disabled

\* C21 as amended: the same for a postponed definition that no earlier call, made while a
\* Pinia was active, has defined.
C21_DisabledUntilDefined ==
    (lastOp.op = "postponed" /\ ~lastOp.active /\ ~lastOp.wasDefined) =>
        /\ Disabled
        /\ postponedDefs[lastOp.name] = [isDefined |-> FALSE, defines |-> 0]

C21_Witness ==
    /\ lastOp.op = "postponed" /\ ~lastOp.active /\ ~lastOp.wasDefined
    /\ lastOp.name = "postponedFail"
    /\ postponedDefs["postponedSetName"].isDefined
    /\ lastOp.out = [ok |-> TRUE, val |-> Undefined]

\* what the action or getter made by the store's own defineAction / defineGetter does
\* when called, or read through useGetter, in the state before the call
Normally(op) ==
    IF op.kind = "action"
    THEN LET inv == ExternalAction(PostponedActions[op.name], op.args, op.pre, <<>>, isDisposed)
         IN  [out |-> [ok |-> inv.ok, val |-> inv.val], st |-> inv.st]
    ELSE LET r == CallGetter(PostponedGetters[op.name],
                             IF op.via = "useGetter" THEN getImmutableState("A") ELSE op.args[1],
                             op.pre)
             val == IF op.via = "useGetter" /\ r.ok /\ r.val.t = "view"
                    THEN Ref(r.val.store, r.val.path) ELSE r.val
         IN  [out |-> [ok |-> r.ok, val |-> val], st |-> r.st]

\* C22: the store's defineAction / defineGetter is called at most once for a postponed
\* definition, by the first call made while a Pinia is active, and from that call on the
\* wrapper does what the normally defined action or getter does.
C22_ActivatesOnce ==
    /\ \A w \in Postponed : postponedDefs[w].defines = IF postponedDefs[w].isDefined THEN 1 ELSE 0
    /\ lastOp.op = "postponed" =>
          /\ postponedDefs[lastOp.name].isDefined = (lastOp.wasDefined \/ lastOp.active)
          /\ postponedDefs[lastOp.name].isDefined =>
                /\ lastOp.out = Normally(lastOp).out
                /\ state = Normally(lastOp).st

\* the same without the reads made through useGetter while no Pinia is active
C22_ActivatesOnceWhileActive ==
    /\ \A w \in Postponed : postponedDefs[w].defines = IF postponedDefs[w].isDefined THEN 1 ELSE 0
    /\ (lastOp.op = "postponed" /\ (lastOp.active \/ lastOp.via = "call")) =>
          /\ postponedDefs[lastOp.name].isDefined = (lastOp.wasDefined \/ lastOp.active)
          /\ postponedDefs[lastOp.name].isDefined =>
                /\ lastOp.out = Normally(lastOp).out
                /\ state = Normally(lastOp).st


(***************************************************************************)
(* Direct getters and purity of reads.                                     *)
(***************************************************************************)
\* C23: useGetter called with a direct getter that was not defined with defineGetter
\* throws instead of returning a binding.
C23_UseGetterOfPlainThrows ==
    (lastOp.op = "bind" /\ ~GetterDefs[lastOp.getter].defined) => ~lastOp.returned

\* what the code does instead: the binding is returned and every read of it throws
C23_ReadOfPlainThrows ==
    (lastOp.op = "read" /\ ~GetterDefs[lastOp.getter].defined) =>
        /\ lastOp.out = [ok |-> FALSE, val |-> TypeError, tr |-> <<>>]
        /\ state = lastOp.pre

\* C25: a read through a binding, successful or failed, leaves the store state as it was.
C25_ReadsChangeNothing ==
    lastOp.op = "read" => state = lastOp.pre

\* the same for the getters that do not write through this
C25_ReadsOfOthersChangeNothing ==
    (lastOp.op = "read" /\ lastOp.getter # "getViaThis") => state = lastOp.pre


\* C24: deleting or redefining a property through an immutable view, at any depth, throws
\* the guard error and leaves the raw state as it was.
C24_NoSideChannel ==
    lastOp.op \in {"delete", "defineProperty"} =>
        /\ ~lastOp.out.ok
        /\ lastOp.out.val = GuardError
        /\ state = lastOp.pre

\* assignments through the same views do fail
C24_AssignmentFails ==
    lastOp.op = "viewWrite" =>
        /\ lastOp.out = [ok |-> FALSE, val |-> GuardError, tr |-> <<>>]
        /\ state = lastOp.pre


\* C26: a useGetterFactory call with a ref that holds an object (or array or function)
\* among its arguments uses a pull function of its own, made by this call, and leaves no
\* pull function in the registry.
C26_RefOfObjectNotCached ==
    (/\ lastOp.op = "bindFactory"
     /\ \E i \in DOMAIN lastOp.args :
           isRef(lastOp.args[i]) /\ ~IsPrimitive(unref(lastOp.args[i]))) =>
        /\ lastOp.get.id >= lastOp.nextPull
        /\ \A j \in Earlier : bindings[j].get.id # lastOp.get.id
        /\ \A f \in DOMAIN factoryRegistry :
              \A key \in DOMAIN factoryRegistry[f] : factoryRegistry[f][key].id # lastOp.get.id

\* the value a read of binding b returns when it calls the factory with the current values
\* of the arguments b was made with, and the getter with the state st
OfCurrentArguments(b, st) ==
    LET getter == GetterFactory(b.get.factory, [i \in DOMAIN b.call |-> unref(Deref(b.call[i]))])
        r == CallGetter(getter, getImmutableState(GetterDefs[getter].store), st)
    IN  [ok |-> r.ok, val |-> r.val]

\* C27: a read of a binding made by useGetterFactory with ref arguments returns
\* factory(the current values of its arguments)(the current state).
C27_ReadDereferencesOwnRefs ==
    (/\ lastOp.op = "read"
     /\ \E i \in DOMAIN bindings[lastOp.binding].call : isRef(bindings[lastOp.binding].call[i])) =>
        [ok |-> lastOp.out.ok, val |-> lastOp.out.val]
            = OfCurrentArguments(bindings[lastOp.binding], lastOp.pre)

\* the same for the bindings whose pull function was made by their own call
C27_ReadOfOwnPullFunction ==
    (/\ lastOp.op = "read"
     /\ \E i \in DOMAIN bindings[lastOp.binding].call : isRef(bindings[lastOp.binding].call[i])
     /\ bindings[lastOp.binding].get.args = bindings[lastOp.binding].call) =>
        [ok |-> lastOp.out.ok, val |-> lastOp.out.val]
            = OfCurrentArguments(bindings[lastOp.binding], lastOp.pre)

(***************************************************************************)
(* When an assignment through a writable binding is skipped.               *)
(***************************************************************************)
\* C28: an assignment of v through a writable binding skips the action if and only if
\* an earlier assignment was made through this same binding and the most recent one
\* had a value strictly equal to v; the value the getter reads now and assignments
\* through other bindings of the getter play no part, and the first assignment
\* through a new binding always invokes the action.
C28_SkippedIffRepeated ==
    lastOp.op = "write" =>
        (~lastOp.called <=> (lastOp.earlier /\ StrictEquals(lastOp.value, lastOp.last)))

\* The same with the first assignment of undefined through a binding set apart, which
\* is skipped as well: this one holds.
C28_SkippedIffRepeatedOrFirstUndefined ==
    lastOp.op = "write" =>
        (~lastOp.called <=> \/ lastOp.earlier /\ StrictEquals(lastOp.value, lastOp.last)
                            \/ ~lastOp.earlier /\ lastOp.value = Undefined)

\* An assignment of what the getter reads now, and of what the other binding of the
\* getter was assigned last, invokes the action when this binding was assigned
\* something else before: this one holds.
C28_OwnHistoryOnly ==
    (/\ lastOp.op = "write"
     /\ lastOp.earlier
     /\ ~StrictEquals(lastOp.value, lastOp.last)) => lastOp.called

(***************************************************************************)
(* What the disposal of a store leaves of the subscriptions.               *)
(***************************************************************************)
OtherStoreDisposed(s) == \E o \in Stores : o # s /\ isDisposed[o]

\* the callback has one registration, made on store s, which nothing has ended
OnlyOn(cb, s) ==
    /\ Cardinality(HandlesOf(handles, cb)) = 1
    /\ \A i \in HandlesOf(handles, cb) : handles[i].store = s /\ Standing(handles[i])

\* C29: disposing store A discards only the action subscriptions of A: a callback
\* registered with $onAction on another store B stays registered and is still notified
\* of the external actions of B that are dispatched after A.$dispose().
C29_DisposeKeepsOtherStores ==
    (/\ lastOp.op = "call"
     /\ ~lastOp.disposed
     /\ OtherStoreDisposed(ActionDefs[lastOp.action].store)) =>
        \A cb \in Callbacks :
            OnlyOn(cb, ActionDefs[lastOp.action].store)
              => CallsOf(lastOp.log, "actionSubscriptions", cb) # {}

\* The same for the native actions of B, and for its external actions when the
\* callback was registered after the disposal of A: this one holds.
C29_DisposeKeepsNativeAndLater ==
    /\ (/\ lastOp.op = "native"
         /\ ~lastOp.disposed
         /\ OtherStoreDisposed(lastOp.store)) =>
           \A cb \in Callbacks :
               OnlyOn(cb, lastOp.store) => CallsOf(lastOp.log, "nativeSubs", cb) # {}
    /\ (/\ lastOp.op = "call"
         /\ ~lastOp.disposed
         /\ OtherStoreDisposed(ActionDefs[lastOp.action].store)) =>
           \A cb \in Callbacks :
               (/\ OnlyOn(cb, ActionDefs[lastOp.action].store)
                /\ \A i \in HandlesOf(handles, cb) : handles[i].current)
                 => CallsOf(lastOp.log, "actionSubscriptions", cb) # {}

(***************************************************************************)
(* Notifications after the disposal of a store.                            *)
(***************************************************************************)
\* the callbacks and hooks a log shows as called
CalledIn(log) == {k \in DOMAIN log : log[k].e = "callback"}

\* C30: after a store is disposed, the subscribers registered before the disposal get
\* no further notification of its external actions: no call before an action, and no
\* after or onError hook call for an asynchronous invocation that was dispatched
\* before the disposal and settles after it.
C30_NoNotificationAfterDisposal ==
    (lastOp.op \in {"call", "settle"} /\ lastOp.disposed) => CalledIn(lastOp.log) = {}

\* The part about calls made after the disposal: this one holds.
C30_NoNotificationOfLaterCalls ==
    (lastOp.op = "call" /\ lastOp.disposed) => CalledIn(lastOp.log) = {}

\* An invocation that settles after the disposal calls the hooks registered while it
\* was dispatched, as one that settles before it does: this one holds.
C30_SettlementCallsHooksAnyway ==
    (lastOp.op = "settle" /\ lastOp.disposed) =>
        Cardinality(CalledIn(lastOp.log))
            = Len(IF lastOp.out.ok THEN lastOp.afterList ELSE lastOp.onErrorList)

(***************************************************************************)
(* The registries of pull functions.                                       *)
(***************************************************************************)
\* every entry of registry before is an entry of registry after, unchanged
Keeps(before, after) ==
    \A key \in DOMAIN before : key \in DOMAIN after /\ after[key] = before[key]

\* C31: a pull function once stored in the getter registry or in the registry of a
\* factory stays mapped to its key unchanged: no useGetter, useGetterFactory, read,
\* dispatch, subscription or $dispose, and no bind made from inside an action, removes
\* an entry or replaces it by another function.
C31_RegistryEntriesPersist ==
    [][/\ Keeps(getterRegistry, getterRegistry')
       /\ \A f \in DOMAIN factoryRegistry :
             /\ f \in DOMAIN factoryRegistry'
             /\ Keeps(factoryRegistry[f], factoryRegistry'[f])]_vars

C31_Witness ==
    /\ lastOp.op = "bindInAction"
    /\ Len(bindings) = 2
    /\ bindings[1].get = bindings[2].get
    /\ Len(actionSubscriptions) > 0

C31_WitnessAfterDispose ==
    /\ lastOp.op = "bind"
    /\ isDisposed["A"]
    /\ Len(bindings) = 2
    /\ bindings[1].get = bindings[2].get

(***************************************************************************)
(* Errors of dependencies and combiners.                                   *)
(***************************************************************************)
\* C32: if dependency di of a composed getter throws when called with S, the error
\* reaches the caller of the getter unchanged, the dependencies after di are not
\* called and the combiner is not invoked; if the combiner throws, its error reaches
\* the caller unchanged.  Every call appears once in the trace (no retry) and the
\* registries and bindings are as before.  Stated for calls whose dependencies before
\* the failing one return without writing to the state.
C32_ErrorsPropagate ==
    (lastOp.op = "getter" /\ GetterDefs[lastOp.getter].defined) =>
        LET d == GetterDefs[lastOp.getter]
            S == lastOp.arg
            n == Len(d.deps)
            dep == [i \in 1..n |-> CallGetter(d.deps[i], S, lastOp.pre)]
            clean(k) == \A i \in 1..k : dep[i].ok /\ dep[i].st = lastOp.pre
            combinerArgs == IF n = 0 THEN <<S>> ELSE [i \in 1..n |-> dep[i].val]
            c == Fn(d.fn, d.cap, d.store, combinerArgs, lastOp.pre)
        IN  /\ \A k \in 1..n :
                  (clean(k - 1) /\ ~dep[k].ok) =>
                      /\ lastOp.out.ok = FALSE
                      /\ lastOp.out.val = dep[k].val
                      /\ lastOp.out.tr = <<Event(lastOp.getter, <<S>>)>>
                                         \o ConcatAll([i \in 1..k |-> dep[i].tr])
                      /\ state = dep[k].st
            /\ (clean(n) /\ ~c.ok) =>
                  /\ lastOp.out.ok = FALSE
                  /\ lastOp.out.val = c.val
                  /\ lastOp.out.tr = <<Event(lastOp.getter, <<S>>)>>
                                     \o ConcatAll([i \in 1..n |-> dep[i].tr])
                                     \o <<Event(d.fn, combinerArgs)>>
                  /\ state = c.st
            /\ getterRegistry = <<>> /\ factoryRegistry = <<>> /\ bindings = <<>>

\* C32 witness: getSumOfCode({data: {codes: null}, status}) threw the TypeError of its
\* first dependency, and getStatus was not called
C32_Witness ==
    /\ lastOp.op = "getter"
    /\ lastOp.getter = "getSumOfCode"
    /\ ~lastOp.out.ok
    /\ lastOp.out.val = TypeError
    /\ \A k \in DOMAIN lastOp.out.tr : lastOp.out.tr[k].call # "getStatus"

(***************************************************************************)
(* Reuse of pull functions across argument lists.                          *)
(***************************************************************************)
\* the values an argument list has now, refs replaced by what they hold
ValuesOf(args) == [i \in DOMAIN args |-> unref(Deref(args[i]))]

\* what the pull function made of the arguments binding b was made with returns
OfOwnArguments(b, st) ==
    LET o == Pull([b.get EXCEPT !.args = b.call], st)
    IN  [ok |-> o.ok, val |-> o.val]

\* C33: reuse never crosses argument lists: the pull function a useGetterFactory call
\* returns was stored by a call whose argument values are equal to its own, and a read
\* of the binding returns factory(its own arguments)(state).
C33_ReuseOnlyForEqualArguments ==
    /\ lastOp.op = "bindFactory" => ValuesOf(lastOp.get.args) = ValuesOf(lastOp.args)
    /\ (lastOp.op = "read" /\ bindings[lastOp.binding].get.factory # "none") =>
          [ok |-> lastOp.out.ok, val |-> lastOp.out.val]
              = OfOwnArguments(bindings[lastOp.binding], lastOp.pre)

\* A pull function is reused only by calls whose arguments have the string form of
\* those of the call that stored it, and a binding that uses the pull function of its
\* own call reads factory(its own arguments)(state): this one holds.
C33_ReuseOnlyForEqualKeys ==
    /\ lastOp.op = "bindFactory" =>
          \/ lastOp.get.args = bindings[Len(bindings)].call
          \/ FactoryKey([i \in DOMAIN lastOp.get.args |-> Deref(lastOp.get.args[i])])
                = FactoryKey(lastOp.args)
    /\ (/\ lastOp.op = "read"
        /\ bindings[lastOp.binding].get.factory # "none"
        /\ bindings[lastOp.binding].get.args = bindings[lastOp.binding].call) =>
          [ok |-> lastOp.out.ok, val |-> lastOp.out.val]
              = OfOwnArguments(bindings[lastOp.binding], lastOp.pre)

(***************************************************************************)
(* What a read returns for a result the getter constructed.                *)
(***************************************************************************)
\* C34: for every getter g, the value read from useGetter(g) is g(current state) with
\* guarded views replaced by the raw nodes they wrap, also when the combiner returns
\* an object it constructed: the read returns that object, never undefined.
C34_ReadIsGetterResult ==
    (lastOp.op = "read" /\ lastOp.evals = 1) =>
        LET r == CallGetter(lastOp.getter, getImmutableState("A"), lastOp.pre)
        IN  /\ lastOp.out.ok = r.ok
            /\ lastOp.out.val = Unguarded(r.val)

\* For the getters whose result is a primitive, null or a node of the state, and for
\* the constructed object with undefined in its place: this one holds.
C34_ReadOfConstructedIsUndefined ==
    (lastOp.op = "read" /\ lastOp.evals = 1) =>
        LET r == CallGetter(lastOp.getter, getImmutableState("A"), lastOp.pre)
        IN  /\ lastOp.out.ok = r.ok
            /\ lastOp.out.val = IF r.ok /\ r.val.t = "object" THEN Undefined
                                ELSE Unguarded(r.val)

(***************************************************************************)
(* Reading back what was assigned.                                         *)
(***************************************************************************)
\* what a read of binding i returns in this state
NextReadOf(i) ==
    IF bindings[i].dirty THEN Pull(bindings[i].get, state).val ELSE bindings[i].cached

C35_ReadReturnsAssignedIfCalled ==
    (lastOp.op = "write" /\ lastOp.out.ok) =>
        NextReadOf(lastOp.binding)
            = IF lastOp.called THEN lastOp.value
              ELSE RawGet(lastOp.pre, Ref("A", <<>>), "status")

(***************************************************************************)
(* Assignments whose action throws.                                        *)
(***************************************************************************)
\* whether an assignment of v through binding i, made in this state, calls the action
CallsAction(i, v) == Set(bindings[i], v, state, actionSubscriptions, isDisposed).called

C36_FailedWriteRemembered ==
    (lastOp.op = "write" /\ lastOp.called /\ ~lastOp.out.ok) =>
        /\ lastOp.out.val \in {AppError, DisposedError}
        /\ bindings[lastOp.binding].previousValue = lastOp.value
        /\ ~CallsAction(lastOp.binding, lastOp.value)
        /\ \A v \in {Num(3), Num(5)} \ {lastOp.value} : CallsAction(lastOp.binding, v)

(***************************************************************************)
(* Asynchronous invocations in flight together.                            *)
(***************************************************************************)
\* C37: with several asynchronous invocations in flight, the after and onError hooks
\* registered during one invocation's before-notification are called only at the
\* settlement of that invocation, with its own result or error, each once; the hooks
\* registered during the other invocations are not called and stay with them.
C37_HooksOfOwnInvocation ==
    lastOp.op = "settle" =>
        LET settled == ActionSettle(lastOp.action, lastOp.args, lastOp.pre)
            list == IF settled.ok THEN "afterCallbackList" ELSE "onErrorCallbackList"
            own == IF settled.ok THEN lastOp.afterList ELSE lastOp.onErrorList
        IN  /\ \A k \in CalledIn(lastOp.log) :
                  lastOp.log[k].list = list /\ lastOp.log[k].arg = settled.val
            /\ \A cb \in Callbacks :
                  Cardinality(CallsOf(lastOp.log, list, cb)) = Occurrences(own, cb)
            /\ Len(pending) = lastOp.inFlight - 1

\* C37 witness: of two invocations of asyncSet in flight, dispatched with one and with
\* two watchers registered, the one with a single hook settles with its own value
C37_Witness ==
    /\ lastOp.op = "settle"
    /\ lastOp.inFlight = 2
    /\ lastOp.action = "asyncSet" /\ lastOp.args = <<Num(5)>>
    /\ lastOp.afterList = <<"watcher">>
    /\ Len(pending) = 1
    /\ pending[1].action = "asyncSet" /\ pending[1].args = <<Num(3)>>
    /\ pending[1].afterList = <<"watcher", "watcher">>
    /\ lastOp.out = [ok |-> TRUE, val |-> Num(5)]

(***************************************************************************)
(* Notification rounds whose callbacks change the subscriptions.           *)
(***************************************************************************)
\* the callbacks a log shows as called, in the order of the calls
RECURSIVE CalledOf(_)
CalledOf(log) ==
    IF log = <<>> THEN <<>>
    ELSE IF Head(log).e = "callback" THEN <<Head(log).cb>> \o CalledOf(Tail(log))
    ELSE CalledOf(Tail(log))

\* C38: a dispatch notifies exactly the callbacks that were in the list when the
\* notification began, each once and in registration order, whatever the callbacks
\* register or remove while it runs; the list is not corrupted: afterwards it holds
\* no quitter, the joiners and removers it held, and, when no remover was in it, the
\* spies it held and one more for each joiner; the next dispatch notifies that list.
C38_RoundNotifiesListAtStart ==
    lastOp.op = "notify" =>
        /\ CalledOf(lastOp.log) = lastOp.subscriptions
        /\ Occurrences(actionSubscriptions, "quitter") = 0
        /\ \A cb \in {"joiner", "remover"} :
              Occurrences(actionSubscriptions, cb) = Occurrences(lastOp.subscriptions, cb)
        /\ Occurrences(lastOp.subscriptions, "remover") = 0 =>
              Occurrences(actionSubscriptions, "spy")
                  = Occurrences(lastOp.subscriptions, "spy")
                    + Occurrences(lastOp.subscriptions, "joiner")
        /\ nativeSubs["A"] = actionSubscriptions

\* C38 witness: a round over <<quitter, joiner>> called both, and left <<joiner, spy>>
C38_Witness ==
    /\ lastOp.op = "notify"
    /\ lastOp.subscriptions = <<"quitter", "joiner">>
    /\ CalledOf(lastOp.log) = <<"quitter", "joiner">>
    /\ actionSubscriptions = <<"joiner", "spy">>

\* the store a postponed action mutates once it is defined: the store its combiner was
\* given by store.defineAction, whatever store the wrapper applies it to
StoreOfAction(a) == ActionDefs[PostponedActions[a]].store

\* a read through useGetter of a postponed getter, made when that getter and the postponed
\* action a of the same wrapper are both defined
BothActivated(a) ==
    /\ lastOp.op = "postponed" /\ lastOp.kind = "getter" /\ lastOp.via = "useGetter"
    /\ postponedDefs[lastOp.name].isDefined
    /\ postponedDefs[a].isDefined

\* C39: once a postponed action and a postponed getter of the same wrapper are both
\* activated, the store whose state useGetter reads for the getter is the store the action
\* mutates, also after the active Pinia is unset, and a call of an activated definition is
\* never the no-op again.
C39_SameStoreAfterActivation ==
    /\ \A a \in DOMAIN PostponedActions :
          BothActivated(a) => lastOp.args[1].store = StoreOfAction(a)
    /\ (lastOp.op = "postponed" /\ lastOp.via = "call" /\ lastOp.wasDefined) =>
          /\ lastOp.out = Normally(lastOp).out
          /\ state = Normally(lastOp).st

\* what the code keeps: the two stores are the same while a Pinia is active, the getter
\* reads the mock store while none is, and the calls never revert to the no-op
C39_SameStoreWhileActive ==
    /\ \A a \in DOMAIN PostponedActions :
          BothActivated(a) =>
              lastOp.args[1].store = IF lastOp.active THEN StoreOfAction(a) ELSE MOCK_STORE.id
    /\ (lastOp.op = "postponed" /\ lastOp.via = "call" /\ lastOp.wasDefined) =>
          /\ lastOp.out = Normally(lastOp).out
          /\ state = Normally(lastOp).st

====
